---- MODULE Spec2Model ----
(***************************************************************************)
(* Design-evaluation engine for shotcrete panels between rock bolts        *)
(* (core/models.py, core/loads.py, core/capacities.py, core/design.py).    *)
(*                                                                         *)
(* Every quantity of the engine is a Python float.  A float is modelled    *)
(* as a binary floating-point number <<m, e>> of value m * 2^e with a      *)
(* MantBits-bit significand, round-to-nearest-even, gradual underflow      *)
(* at exponent -MinExpMag, overflow above exponent MaxExp, and the         *)
(* special values +inf, -inf and nan.  With MantBits = 53, MinExpMag =     *)
(* 1074 and MaxExp = 971 this is IEEE-754 binary64; the model keeps the    *)
(* same rules at a reduced width.  The sign of zero is not modelled.       *)
(***************************************************************************)
EXTENDS Integers, Sequences, FiniteSets, TLC

\* Width of the significand, in bits.
MantBits == 8
\* Largest exponent e of a finite float <<m, e>>.
MaxExp == 20
\* Magnitude of the smallest exponent (that of the subnormals).
MinExpMag == 30

MinExp == 0 - MinExpMag
ExpSpecial == MaxExp + 1

\* ------------------------------------------------------------------------
\* Floating-point values
\* ------------------------------------------------------------------------
Zero   == <<0, 0>>
PosInf == <<1, ExpSpecial>>
NegInf == <<-1, ExpSpecial>>
NaN    == <<0, ExpSpecial>>

IsNaN(a)    == a = NaN
IsInf(a)    == a = PosInf \/ a = NegInf
IsFinite(a) == a[2] # ExpSpecial
IsZero(a)   == a = Zero

Abs(n)  == IF n < 0 THEN 0 - n ELSE n
Sign(n) == IF n > 0 THEN 1 ELSE IF n < 0 THEN 0 - 1 ELSE 0
Max(x, y) == IF x >= y THEN x ELSE y
Min(x, y) == IF x <= y THEN x ELSE y

\* Number of bits of the natural number a (0 for 0); a < 2^29.
BitLen(a) == IF a = 0 THEN 0 ELSE CHOOSE k \in 1..29 : 2^(k-1) <= a /\ a < 2^k

\* The float of sign sgn, significand q and exponent Ex: zero when q = 0,
\* +-inf when Ex is above the largest exponent.
Pack(sgn, q, Ex) ==
  IF q = 0 THEN Zero
  ELSE IF Ex > MaxExp THEN <<sgn, ExpSpecial>>
  ELSE <<sgn * q, Ex>>

\* The natural number a of bl bits, shifted right by k bits (left for k < 0)
\* and rounded to nearest, ties to even.
ShiftRound(a, bl, k) ==
  IF k > bl THEN 0
  ELSE IF k <= 0 THEN a * 2^(0 - k)
  ELSE LET q0 == a \div 2^k
           r  == a % 2^k
           hf == 2^(k-1)
       IN  IF r > hf \/ (r = hf /\ q0 % 2 = 1) THEN q0 + 1 ELSE q0

\* The rounded significand q1 at exponent E; a carry to 2^MantBits moves up
\* one exponent.
Carry(sgn, q1, E) ==
  IF q1 = 2^MantBits THEN Pack(sgn, q1 \div 2, E + 1) ELSE Pack(sgn, q1, E)

\* As Round, for n # 0 with |n| = a of bl bits; E is the exponent of the result.
RoundTo(sgn, a, bl, e0, E) == Carry(sgn, ShiftRound(a, bl, E - e0), E)

RoundBits(sgn, a, bl, e0) == RoundTo(sgn, a, bl, e0, Max(e0 + bl - MantBits, MinExp))

\* n * 2^e0 rounded to the nearest float, ties to even; +-inf on overflow.
Round(n, e0) ==
  IF n = 0 THEN Zero ELSE RoundBits(Sign(n), Abs(n), BitLen(Abs(n)), e0)

\* The float of an integer, and of the decimal literal n/d.
FromInt(n) == Round(n, 0)

\* a finite and non-zero: the same value with a significand of MantBits bits.
NormUp(a) ==
  LET k == MantBits - BitLen(Abs(a[1]))
  IN  <<a[1] * 2^k, a[2] - k>>

\* a * b
FMul(a, b) ==
  IF IsNaN(a) \/ IsNaN(b) THEN NaN
  ELSE IF IsInf(a) \/ IsInf(b)
       THEN <<Sign(a[1]) * Sign(b[1]), ExpSpecial>>
       ELSE Round(a[1] * b[1], a[2] + b[2])

\* x / y for normalised x and y, with the sign sgn: the quotient to MantBits + 2
\* bits and a sticky bit, rounded once.
DivNorm(sgn, x, y) ==
  LET N  == Abs(x[1]) * 2^(MantBits + 2)
      q  == N \div Abs(y[1])
      r  == N % Abs(y[1])
  IN  Round(sgn * (2 * q + (IF r = 0 THEN 0 ELSE 1)), x[2] - y[2] - (MantBits + 2) - 1)

\* a / b for b # 0 (Python raises ZeroDivisionError before dividing by zero).
FDiv(a, b) ==
  IF IsNaN(a) \/ IsNaN(b) THEN NaN
  ELSE IF IsInf(a)
       THEN IF IsInf(b) THEN NaN ELSE <<Sign(a[1]) * Sign(b[1]), ExpSpecial>>
  ELSE IF IsInf(b) \/ IsZero(a) THEN Zero
  ELSE DivNorm(Sign(a[1]) * Sign(b[1]), NormUp(a), NormUp(b))

\* a + b
FAdd(a, b) ==
  IF IsNaN(a) \/ IsNaN(b) THEN NaN
  ELSE IF IsInf(a) THEN (IF IsInf(b) /\ b # a THEN NaN ELSE a)
  ELSE IF IsInf(b) THEN b
  ELSE IF IsZero(a) THEN b
  ELSE IF IsZero(b) THEN a
  ELSE LET hi == IF a[2] >= b[2] THEN a ELSE b
           lo == IF a[2] >= b[2] THEN b ELSE a
           d  == hi[2] - lo[2]
       IN  IF d > MantBits + 2
           THEN Round(hi[1] * 8 + Sign(lo[1]), hi[2] - 3)
           ELSE Round(hi[1] * 2^d + lo[1], lo[2])

FNeg(a) == <<0 - a[1], a[2]>>

\* a - b
FSub(a, b) == FAdd(a, FNeg(b))

\* a < b; false when either is nan.
FLt(a, b) ==
  IF IsNaN(a) \/ IsNaN(b) \/ a = b THEN FALSE
  ELSE IF IsInf(a) THEN a = NegInf
  ELSE IF IsInf(b) THEN b = PosInf
  ELSE IF Sign(a[1]) # Sign(b[1]) THEN Sign(a[1]) < Sign(b[1])
  ELSE LET ta == a[2] + BitLen(Abs(a[1]))
           tb == b[2] + BitLen(Abs(b[1]))
           e  == Min(a[2], b[2])
       IN  IF ta # tb THEN (IF a[1] > 0 THEN ta < tb ELSE tb < ta)
           ELSE a[1] * 2^(a[2] - e) < b[1] * 2^(b[2] - e)

\* a <= b, a > b, a >= b; false when either is nan.
FLe(a, b) == ~IsNaN(a) /\ ~IsNaN(b) /\ (a = b \/ FLt(a, b))
FGt(a, b) == FLt(b, a)
FGe(a, b) == FLe(b, a)

\* ------------------------------------------------------------------------
\* Python values: exceptions, None, float literals, x ** 2, max, format
\* ------------------------------------------------------------------------
None == <<>>

\* A call that returned v, and a call that raised.
Ret(v)            == [exc |-> "none", val |-> v]
Raise(kind, text) == [exc |-> kind, msg |-> text]

\* The float literal n/d (n and d exactly representable).
Lit(n, d) == FDiv(FromInt(n), FromInt(d))

\* x ** 2 on a float: OverflowError when the square of a finite x overflows,
\* no error on underflow.  The square is taken as correctly rounded.
FPow2(x) ==
  LET r == FMul(x, x)
  IN  IF IsFinite(x) /\ IsInf(r)
      THEN Raise("OverflowError", "(34, 'Numerical result out of range')")
      ELSE Ret(r)

\* max(a, b) of Python: b when b > a, else a.
PyMax(a, b) == IF FGt(b, a) THEN b ELSE a

\* format(x, ".3f"): the decimal digits of x rounded to thousandths (half to
\* even on the exact value).  The text is represented by what determines it:
\* the sign and the count of thousandths, or the value itself when x is an
\* integer >= 2^MantBits (printed exactly, with ".000") or inf or nan.
Fmt3(x) ==
  IF ~IsFinite(x) THEN <<"special", x>>
  ELSE IF x[2] >= 0 THEN <<"integer", x>>
  ELSE <<"thousandths", Sign(x[1]),
         ShiftRound(Abs(x[1]) * 1000, BitLen(Abs(x[1]) * 1000), 0 - x[2])>>

\* ------------------------------------------------------------------------
\* core/models.py
\* ------------------------------------------------------------------------
DesignMode == {"FOS", "LRFD"}
LoadModel  == {"Pyramid60", "FlatBlock", "ShaleWedge"}

\* DesignInput.t_effective
\* A variant of the return of t_effective without the clamp at 0.
t_effective_return_unclamped(teff) == teff

t_effective_return(teff) == IF FGt(teff, Zero) THEN teff ELSE Zero

\* A variant of t_effective that adds the deduction to the thickness.
t_effective_added(self) ==
  t_effective_return(FAdd(self.t, PyMax(Zero, self.factors.t_dur_deduction)))

t_effective(self) ==
  t_effective_return(FSub(self.t, PyMax(Zero, self.factors.t_dur_deduction)))

\* ------------------------------------------------------------------------
\* core/loads.py
\* ------------------------------------------------------------------------
\* tan(radians(theta_deg)) for the angles of the model, in units of 2^-16.
TanDeg(theta_deg) ==
  CASE theta_deg = 0 - 45 -> Round(0 - 65536, 0 - 16)
    [] theta_deg = 0      -> Zero
    [] theta_deg = 30     -> Round(37837, 0 - 16)
    [] theta_deg = 45     -> Round(65536, 0 - 16)
    [] theta_deg = 60     -> Round(113512, 0 - 16)
    [] theta_deg = 75     -> Round(244583, 0 - 16)
    [] theta_deg = 89     -> Round(3754555, 0 - 16)
    [] theta_deg = 135    -> Round(0 - 65536, 0 - 16)

uniform_load_from_block(W_kN, s) ==
  IF FLe(s, Zero) THEN Raise("ValueError", "Bolt spacing 's' must be > 0.")
  ELSE LET ss == FMul(s, s)
       IN  IF IsZero(ss) THEN Raise("ZeroDivisionError", "float division by zero")
           ELSE Ret(FDiv(W_kN, ss))

\* Surcharge and shotcrete self-weight terms and the total, shared by the
\* pyramid and the flat block (s2 is s ** 2).
WeightTotal(W_rock, s, s2, surcharge_uniform, include_shotcrete_self_weight, t_shotcrete, gamma_shotcrete) ==
  LET W_surcharge == IF FGt(surcharge_uniform, Zero)
                     THEN FMul(surcharge_uniform, s2) ELSE Zero
      W_sc == IF include_shotcrete_self_weight /\ FGt(t_shotcrete, Zero)
              THEN FMul(FMul(t_shotcrete, s2), gamma_shotcrete) ELSE Zero
      W_total == FAdd(FAdd(W_rock, W_surcharge), W_sc)
      w_uniform == uniform_load_from_block(W_total, s)
  IN  IF w_uniform.exc # "none" THEN w_uniform
      ELSE Ret(<<W_total, w_uniform.val>>)

\* A variant of block_weight_pyramid without the check of gamma_rock.
block_weight_pyramid_unchecked_gamma(s, gamma_rock, theta_deg, surcharge_uniform, include_shotcrete_self_weight, t_shotcrete, gamma_shotcrete) ==
  IF FLe(s, Zero) THEN Raise("ValueError", "Bolt spacing 's' must be > 0.")
  ELSE LET h  == FMul(FMul(Lit(1, 2), s), TanDeg(theta_deg))
           s2 == FPow2(s)
       IN  IF s2.exc # "none" THEN s2
           ELSE WeightTotal(FMul(FMul(FMul(Lit(1, 3), s2.val), h), gamma_rock), s, s2.val,
                            surcharge_uniform, include_shotcrete_self_weight,
                            t_shotcrete, gamma_shotcrete)

block_weight_pyramid(s, gamma_rock, theta_deg, surcharge_uniform, include_shotcrete_self_weight, t_shotcrete, gamma_shotcrete) ==
  IF FLe(s, Zero) THEN Raise("ValueError", "Bolt spacing 's' must be > 0.")
  ELSE IF FLe(gamma_rock, Zero) THEN Raise("ValueError", "gamma_rock must be > 0.")
  ELSE LET h  == FMul(FMul(Lit(1, 2), s), TanDeg(theta_deg))
           s2 == FPow2(s)
       IN  IF s2.exc # "none" THEN s2
           ELSE LET V      == FMul(FMul(Lit(1, 3), s2.val), h)
                    W_rock == FMul(V, gamma_rock)
                IN  WeightTotal(W_rock, s, s2.val, surcharge_uniform,
                                include_shotcrete_self_weight, t_shotcrete,
                                gamma_shotcrete)

block_weight_flat(s, gamma_rock, h_block, surcharge_uniform, include_shotcrete_self_weight, t_shotcrete, gamma_shotcrete) ==
  IF FLe(s, Zero) THEN Raise("ValueError", "Bolt spacing 's' must be > 0.")
  ELSE IF FLe(gamma_rock, Zero) THEN Raise("ValueError", "gamma_rock must be > 0.")
  ELSE IF FLe(h_block, Zero) THEN Raise("ValueError", "h_block must be > 0.")
  ELSE LET s2 == FPow2(s)
       IN  IF s2.exc # "none" THEN s2
           ELSE LET V      == FMul(s2.val, h_block)
                    W_rock == FMul(V, gamma_rock)
                IN  WeightTotal(W_rock, s, s2.val, surcharge_uniform,
                                include_shotcrete_self_weight, t_shotcrete,
                                gamma_shotcrete)

\* A variant of block_weight_shale that takes the angle of the pyramid, 60.
block_weight_shale_at_60(s, gamma_rock, theta_deg, surcharge_uniform, include_shotcrete_self_weight, t_shotcrete, gamma_shotcrete) ==
  block_weight_pyramid(s, gamma_rock, 60, surcharge_uniform,
                       include_shotcrete_self_weight, t_shotcrete, gamma_shotcrete)

block_weight_shale(s, gamma_rock, theta_deg, surcharge_uniform, include_shotcrete_self_weight, t_shotcrete, gamma_shotcrete) ==
  block_weight_pyramid(s, gamma_rock, theta_deg, surcharge_uniform,
                       include_shotcrete_self_weight, t_shotcrete, gamma_shotcrete)

\* (model or "").strip().lower(), on the model names that are passed.
StripLower(model) ==
  CASE model = "Pyramid60"    -> "pyramid60"
    [] model = "pyramid"      -> "pyramid"
    [] model = "FlatBlock"    -> "flatblock"
    [] model = "hawkesbury"   -> "hawkesbury"
    [] model = "ShaleWedge"   -> "shalewedge"
    [] model = " ShaleWedge " -> "shalewedge"
    [] model = "SHALE"        -> "shale"
    [] model = "Wedge"        -> "wedge"
    [] model = ""             -> ""

\* An Optional[float] argument: None, or the value in a one-element tuple.
Some(x) == <<x>>

\* theta_deg and h_block are Optional; float() of the angle is the angle.
compute_panel_load(model, s, gamma_rock, theta_deg, h_block, surcharge_uniform, include_shotcrete_self_weight, t_shotcrete, gamma_shotcrete) ==
  IF StripLower(model) \in {"pyramid60", "pyramid", "bm1995", "barrett"}
  THEN block_weight_pyramid(s, gamma_rock, IF theta_deg = None THEN 60 ELSE theta_deg[1],
                            surcharge_uniform, include_shotcrete_self_weight,
                            t_shotcrete, gamma_shotcrete)
  ELSE IF StripLower(model) \in {"flatblock", "flat", "hawkesbury"}
  THEN IF h_block = None THEN Raise("ValueError", "FlatBlock requires h_block (m).")
       ELSE block_weight_flat(s, gamma_rock, h_block[1], surcharge_uniform,
                              include_shotcrete_self_weight, t_shotcrete, gamma_shotcrete)
  ELSE IF StripLower(model) \in {"shalewedge", "shale"}
  THEN IF theta_deg = None
       THEN Raise("ValueError", "ShaleWedge requires theta_deg (degrees).")
       ELSE block_weight_shale(s, gamma_rock, theta_deg[1], surcharge_uniform,
                               include_shotcrete_self_weight, t_shotcrete,
                               gamma_shotcrete)
  ELSE Raise("ValueError", "Unknown load model")

\* ------------------------------------------------------------------------
\* core/capacities.py
\* ------------------------------------------------------------------------
MPA_TO_KN_M2 == FromInt(1000)

\* A variant of capacity_adhesion without the guard on its arguments.
capacity_adhesion_unguarded(s, a_bond, tau_b_MPa) ==
  Ret(FMul(FMul(tau_b_MPa, MPA_TO_KN_M2), FMul(FMul(FromInt(4), s), a_bond)))

capacity_adhesion(s, a_bond, tau_b_MPa) ==
  IF FLe(s, Zero) \/ FLt(a_bond, Zero) \/ FLt(tau_b_MPa, Zero) THEN Ret(Zero)
  ELSE LET A_eff == FMul(FMul(FromInt(4), s), a_bond)
       IN  Ret(FMul(FMul(tau_b_MPa, MPA_TO_KN_M2), A_eff))

flexure_demands_uniform_load(w_kNpm2, s, two_way_factor) ==
  IF FLe(s, Zero) \/ FLt(w_kNpm2, Zero) THEN Ret(Zero)
  ELSE LET s2 == FPow2(s)
       IN  IF s2.exc # "none" THEN s2
           ELSE LET M_1D == FDiv(FMul(w_kNpm2, s2.val), FromInt(8))
                IN  Ret(FMul(two_way_factor, M_1D))

\* A variant of capacity_flexure_two_way with a section modulus of 1/6,
\* whatever the thickness.
capacity_flexure_two_way_no_thickness(t_eff, f_r_MPa) ==
  IF FLe(t_eff, Zero) \/ FLe(f_r_MPa, Zero) THEN Ret(Zero)
  ELSE Ret(FMul(FMul(f_r_MPa, MPA_TO_KN_M2), Lit(1, 6)))

capacity_flexure_two_way(t_eff, f_r_MPa) ==
  IF FLe(t_eff, Zero) \/ FLe(f_r_MPa, Zero) THEN Ret(Zero)
  ELSE LET t2 == FPow2(t_eff)
       IN  IF t2.exc # "none" THEN t2
           ELSE LET Z == FDiv(t2.val, FromInt(6))
                IN  Ret(FMul(FMul(f_r_MPa, MPA_TO_KN_M2), Z))

punching_demand(w_kNpm2, s) ==
  IF FLe(s, Zero) \/ FLt(w_kNpm2, Zero) THEN Ret(Zero)
  ELSE LET s2 == FPow2(s)
       IN  IF s2.exc # "none" THEN s2
           ELSE Ret(FDiv(FMul(w_kNpm2, s2.val), FromInt(4)))

\* A variant of capacity_punching whose effective depth is the whole thickness.
capacity_punching_full_depth(t_eff, c_plate, v_rd_MPa) ==
  IF FLe(t_eff, Zero) \/ FLt(c_plate, Zero) \/ FLe(v_rd_MPa, Zero) THEN Ret(Zero)
  ELSE LET d == t_eff
           u == FMul(FromInt(4), FAdd(c_plate, FMul(Lit(1, 2), d)))
       IN  Ret(FMul(FMul(FMul(v_rd_MPa, MPA_TO_KN_M2), u), d))

\* A variant of capacity_punching without the guard on the strength.
capacity_punching_unguarded(t_eff, c_plate, v_rd_MPa) ==
  IF FLe(t_eff, Zero) \/ FLt(c_plate, Zero) THEN Ret(Zero)
  ELSE LET d == FMul(Lit(9, 10), t_eff)
           u == FMul(FromInt(4), FAdd(c_plate, FMul(Lit(1, 2), d)))
       IN  Ret(FMul(FMul(FMul(v_rd_MPa, MPA_TO_KN_M2), u), d))

capacity_punching(t_eff, c_plate, v_rd_MPa) ==
  IF FLe(t_eff, Zero) \/ FLt(c_plate, Zero) \/ FLe(v_rd_MPa, Zero) THEN Ret(Zero)
  ELSE LET d == FMul(Lit(9, 10), t_eff)
           u == FMul(FromInt(4), FAdd(c_plate, FMul(Lit(1, 2), d)))
       IN  Ret(FMul(FMul(FMul(v_rd_MPa, MPA_TO_KN_M2), u), d))

\* A variant of capacity_direct_shear without the guard on the spacing.
capacity_direct_shear_unguarded_s(s, t_eff, tau_v_MPa) ==
  IF FLe(t_eff, Zero) \/ FLe(tau_v_MPa, Zero) THEN Ret(Zero)
  ELSE LET A_v == FMul(FMul(FromInt(4), s), t_eff)
       IN  Ret(FMul(FMul(tau_v_MPa, MPA_TO_KN_M2), A_v))

capacity_direct_shear(s, t_eff, tau_v_MPa) ==
  IF FLe(s, Zero) \/ FLe(t_eff, Zero) \/ FLe(tau_v_MPa, Zero) THEN Ret(Zero)
  ELSE LET A_v == FMul(FMul(FromInt(4), s), t_eff)
       IN  Ret(FMul(FMul(tau_v_MPa, MPA_TO_KN_M2), A_v))

\* (fos, passes)
\* A variant of evaluate_fos that tests the capacity before the demand.
evaluate_fos_capacity_first(capacity, demand) ==
  IF FLe(capacity, Zero) THEN Ret(<<Zero, FALSE>>)
  ELSE IF FLe(demand, Zero) THEN Ret(<<PosInf, TRUE>>)
  ELSE LET fos == FDiv(capacity, demand)
       IN  Ret(<<fos, FGe(fos, FromInt(1))>>)

\* A variant of evaluate_fos that passes only above 1.0.
evaluate_fos_strict(capacity, demand) ==
  IF FLe(demand, Zero) THEN Ret(<<PosInf, TRUE>>)
  ELSE IF FLe(capacity, Zero) THEN Ret(<<Zero, FALSE>>)
  ELSE LET fos == FDiv(capacity, demand)
       IN  Ret(<<fos, FGt(fos, FromInt(1))>>)

\* A variant of evaluate_fos that divides the demand by the capacity.
evaluate_fos_inverted(capacity, demand) ==
  IF FLe(demand, Zero) THEN Ret(<<PosInf, TRUE>>)
  ELSE IF FLe(capacity, Zero) THEN Ret(<<Zero, FALSE>>)
  ELSE LET fos == FDiv(demand, capacity)
       IN  Ret(<<fos, FGe(fos, FromInt(1))>>)

evaluate_fos(capacity, demand) ==
  IF FLe(demand, Zero) THEN Ret(<<PosInf, TRUE>>)
  ELSE IF FLe(capacity, Zero) THEN Ret(<<Zero, FALSE>>)
  ELSE LET fos == FDiv(capacity, demand)
       IN  Ret(<<fos, FGe(fos, FromInt(1))>>)

\* A variant of evaluate_lrfd whose unevaluable checks pass.
evaluate_lrfd_default_pass(capacity, demand, phi, gamma) ==
  IF FLe(capacity, Zero) \/ FLe(phi, Zero) THEN Ret(<<PosInf, TRUE>>)
  ELSE LET dem         == IF FLt(demand, Zero) THEN Zero ELSE demand
           numerator   == FMul(gamma, dem)
           denominator == FMul(phi, capacity)
       IN  IF FLe(denominator, Zero) THEN Ret(<<PosInf, TRUE>>)
           ELSE LET U == FDiv(numerator, denominator)
                IN  Ret(<<U, FLe(U, FromInt(1))>>)

\* A variant of evaluate_lrfd that does not clamp the demand.
evaluate_lrfd_unclamped(capacity, demand, phi, gamma) ==
  IF FLe(capacity, Zero) \/ FLe(phi, Zero) THEN Ret(<<PosInf, FALSE>>)
  ELSE LET numerator   == FMul(gamma, demand)
           denominator == FMul(phi, capacity)
       IN  IF FLe(denominator, Zero) THEN Ret(<<PosInf, FALSE>>)
           ELSE LET U == FDiv(numerator, denominator)
                IN  Ret(<<U, FLe(U, FromInt(1))>>)

\* A variant of evaluate_lrfd that passes only utilisations below 1.0.
evaluate_lrfd_strict(capacity, demand, phi, gamma) ==
  IF FLe(capacity, Zero) \/ FLe(phi, Zero) THEN Ret(<<PosInf, FALSE>>)
  ELSE LET dem         == IF FLt(demand, Zero) THEN Zero ELSE demand
           numerator   == FMul(gamma, dem)
           denominator == FMul(phi, capacity)
       IN  IF FLe(denominator, Zero) THEN Ret(<<PosInf, FALSE>>)
           ELSE LET U == FDiv(numerator, denominator)
                IN  Ret(<<U, FLt(U, FromInt(1))>>)

\* (U, passes)
evaluate_lrfd(capacity, demand, phi, gamma) ==
  IF FLe(capacity, Zero) \/ FLe(phi, Zero) THEN Ret(<<PosInf, FALSE>>)
  ELSE LET dem         == IF FLt(demand, Zero) THEN Zero ELSE demand
           numerator   == FMul(gamma, dem)
           denominator == FMul(phi, capacity)
       IN  IF FLe(denominator, Zero) THEN Ret(<<PosInf, FALSE>>)
           ELSE LET U == FDiv(numerator, denominator)
                IN  Ret(<<U, FLe(U, FromInt(1))>>)

\* ------------------------------------------------------------------------
\* core/design.py
\* ------------------------------------------------------------------------
\* Shotcrete unit weight, the default of the load functions.
gamma_shotcrete_default == FromInt(24)

\* A variant of _panel_load_from_input that takes the pyramid for every model.
_panel_load_from_input_pyramid_only(i) ==
  block_weight_pyramid(i.s, i.gamma_rock, i.theta_deg, Zero, FALSE, i.t,
                       gamma_shotcrete_default)

\* A variant of _panel_load_from_input that includes the shotcrete self-weight.
_panel_load_from_input_with_self_weight(i) ==
  IF i.load_model = "FlatBlock"
  THEN block_weight_flat(i.s, i.gamma_rock, i.h_block, Zero, TRUE, i.t,
                         gamma_shotcrete_default)
  ELSE block_weight_pyramid(i.s, i.gamma_rock, i.theta_deg, Zero, TRUE, i.t,
                            gamma_shotcrete_default)

_panel_load_from_input(i) ==
  LET include_sc == FALSE
  IN  IF i.load_model = "Pyramid60"
      THEN block_weight_pyramid(i.s, i.gamma_rock, i.theta_deg, Zero, include_sc,
                                i.t, gamma_shotcrete_default)
      ELSE IF i.load_model = "FlatBlock"
      THEN block_weight_flat(i.s, i.gamma_rock, i.h_block, Zero, include_sc,
                             i.t, gamma_shotcrete_default)
      ELSE IF i.load_model = "ShaleWedge"
      THEN block_weight_shale(i.s, i.gamma_rock, i.theta_deg, Zero, include_sc,
                              i.t, gamma_shotcrete_default)
      ELSE block_weight_pyramid(i.s, i.gamma_rock, i.theta_deg, Zero, include_sc,
                                i.t, gamma_shotcrete_default)

\* ModeResult(name, demand, capacity, detail=detail)
ModeResult(demand, capacity, detail) ==
  [demand |-> demand, capacity |-> capacity, fos |-> None, utilization |-> None,
   passes |-> None, detail |-> detail]

\* mr.fos, mr.passes = r and mr.utilization, mr.passes = r, for the returned pair r.
SetFos(mr, r) ==
  IF r.exc # "none" THEN r ELSE Ret([mr EXCEPT !.fos = r.val[1], !.passes = r.val[2]])

SetUtilization(mr, r) ==
  IF r.exc # "none" THEN r
  ELSE Ret([mr EXCEPT !.utilization = r.val[1], !.passes = r.val[2]])

\* A variant of _evaluate_mode that fills in fos under either convention.
_evaluate_mode_always_fos(name, demand, capacity, mode, phi, gamma, detail) ==
  SetFos(ModeResult(demand, capacity, detail), evaluate_fos(capacity, demand))

\* A variant of _evaluate_mode that applies phi and gamma under FOS as well.
_evaluate_mode_factored_fos(name, demand, capacity, mode, phi, gamma, detail) ==
  IF mode = "FOS"
  THEN SetFos(ModeResult(demand, capacity, detail),
              evaluate_fos(FMul(phi, capacity), FMul(gamma, demand)))
  ELSE SetUtilization(ModeResult(demand, capacity, detail),
                      evaluate_lrfd(capacity, demand, phi, gamma))

\* ModeResult with either fos or utilization filled in.
_evaluate_mode(name, demand, capacity, mode, phi, gamma, detail) ==
  IF mode = "FOS"
  THEN SetFos(ModeResult(demand, capacity, detail), evaluate_fos(capacity, demand))
  ELSE SetUtilization(ModeResult(demand, capacity, detail),
                      evaluate_lrfd(capacity, demand, phi, gamma))

\* The keys of result.modes in the order check_design inserts them.
ModeOrder == <<"Adhesion", "Flexure", "Punching", "DirectShear">>

\* The loop of _min_fos_mode from the k-th mode on; st = <<name, value, first>>.
RECURSIVE MinFosLoop(_, _, _)
MinFosLoop(modes, k, st) ==
  IF k > Len(ModeOrder) THEN <<st[1], st[2]>>
  ELSE LET name == ModeOrder[k]
           mr   == modes[name]
       IN  IF mr.fos = None THEN MinFosLoop(modes, k + 1, st)
           ELSE IF st[3] \/ FLt(mr.fos, st[2])
                THEN MinFosLoop(modes, k + 1, <<name, mr.fos, FALSE>>)
                ELSE MinFosLoop(modes, k + 1, st)

\* A variant of _min_fos_mode whose loop does not take the first mode as it comes.
_min_fos_mode_not_first(modes) == MinFosLoop(modes, 1, <<"", Zero, FALSE>>)

_min_fos_mode(modes) == MinFosLoop(modes, 1, <<"", Zero, TRUE>>)

\* The loop of _max_util_mode from the k-th mode on.
RECURSIVE MaxUtilLoop(_, _, _)
MaxUtilLoop(modes, k, st) ==
  IF k > Len(ModeOrder) THEN <<st[1], st[2]>>
  ELSE LET name == ModeOrder[k]
           mr   == modes[name]
       IN  IF mr.utilization = None THEN MaxUtilLoop(modes, k + 1, st)
           ELSE IF st[3] \/ FGt(mr.utilization, st[2])
                THEN MaxUtilLoop(modes, k + 1, <<name, mr.utilization, FALSE>>)
                ELSE MaxUtilLoop(modes, k + 1, st)

_max_util_mode(modes) == MaxUtilLoop(modes, 1, <<"", Zero, TRUE>>)

\* A variant of DesignResult that reads every governing value as a utilisation.
DesignResult_as_utilisation(f, modes, gov, derived) ==
  Ret([modes |-> modes, governing_mode |-> gov[1], governing_value |-> gov[2],
       ok |-> FLe(gov[2], FromInt(1)), derived |-> derived])

\* DesignResult from the governing pair gov = <<name, value>>.
DesignResult(f, modes, gov, derived) ==
  Ret([modes |-> modes, governing_mode |-> gov[1], governing_value |-> gov[2],
       ok |-> IF f.mode = "FOS" THEN FGe(gov[2], FromInt(1)) ELSE FLe(gov[2], FromInt(1)),
       derived |-> derived])

\* Collation and governing mode (design.py, "Collate + governing").
Collate(f, modes, derived) ==
  DesignResult(f, modes,
               IF f.mode = "FOS" THEN _min_fos_mode(modes) ELSE _max_util_mode(modes),
               derived)

\* check_design from the direct-shear check on.
CheckDirectShear(i, teff, W_total_kN, w_uniform, res_adh, res_flex, res_punch) ==
  Collate(i.factors,
          [Adhesion |-> res_adh, Flexure |-> res_flex, Punching |-> res_punch,
           DirectShear |->
             _evaluate_mode("DirectShear", W_total_kN,
               capacity_direct_shear(i.s, teff, i.materials.tau_v).val,
               i.factors.mode, i.factors.phi_shear, i.factors.gamma_load,
               <<"A_v~4*s*t_eff; tau_v=", Fmt3(i.materials.tau_v), " MPa; t_eff=",
                 Fmt3(teff), " m">>).val],
          [t_eff |-> teff, W_total_kN |-> W_total_kN, w_kNpm2 |-> w_uniform])

\* check_design from the punching check on; V_dem is the outcome of punching_demand.
CheckPunching(i, teff, W_total_kN, w_uniform, res_adh, res_flex, V_dem) ==
  IF V_dem.exc # "none" THEN V_dem
  ELSE CheckDirectShear(i, teff, W_total_kN, w_uniform, res_adh, res_flex,
         _evaluate_mode("Punching", V_dem.val,
           capacity_punching(teff, i.c, i.materials.v_rd).val,
           i.factors.mode, i.factors.phi_punching, i.factors.gamma_load,
           <<"u=4*(c+0.5d); d~0.9*t_eff; v_rd=", Fmt3(i.materials.v_rd), " MPa; c=",
             Fmt3(i.c), " m">>).val)

\* check_design from the flexure check on; M_dem and M_cap are the outcomes of
\* flexure_demands_uniform_load and capacity_flexure_two_way.
CheckFlexure(i, teff, W_total_kN, w_uniform, res_adh, M_dem, M_cap) ==
  IF M_dem.exc # "none" THEN M_dem
  ELSE IF M_cap.exc # "none" THEN M_cap
  ELSE CheckPunching(i, teff, W_total_kN, w_uniform, res_adh,
         _evaluate_mode("Flexure", M_dem.val, M_cap.val, i.factors.mode,
           i.factors.phi_flexure, i.factors.gamma_load,
           <<"M_1D=w*s^2/8; two-way=0.6; f_r=", Fmt3(i.materials.f_r), " MPa; t_eff=",
             Fmt3(teff), " m">>).val,
         punching_demand(w_uniform, i.s))

\* A variant of CheckAdhesion that hands phi_flexure to the adhesion check.
CheckAdhesion_phi_flexure(i, teff, W_total_kN, w_uniform) ==
  CheckFlexure(i, teff, W_total_kN, w_uniform,
    _evaluate_mode("Adhesion", W_total_kN,
      capacity_adhesion(i.s, i.a_bond, i.materials.tau_b).val,
      i.factors.mode, i.factors.phi_flexure, i.factors.gamma_load,
      <<"Ring area 4*s*a_bond; tau_b=", Fmt3(i.materials.tau_b), " MPa, a_bond=",
        Fmt3(i.a_bond), " m">>).val,
    flexure_demands_uniform_load(w_uniform, i.s, Lit(6, 10)),
    capacity_flexure_two_way(teff, i.materials.f_r))

\* check_design from the adhesion check on.  capacity_flexure_two_way is called
\* only when flexure_demands_uniform_load returned.
CheckAdhesion(i, teff, W_total_kN, w_uniform) ==
  CheckFlexure(i, teff, W_total_kN, w_uniform,
    _evaluate_mode("Adhesion", W_total_kN,
      capacity_adhesion(i.s, i.a_bond, i.materials.tau_b).val,
      i.factors.mode, i.factors.phi_shear, i.factors.gamma_load,
      <<"Ring area 4*s*a_bond; tau_b=", Fmt3(i.materials.tau_b), " MPa, a_bond=",
        Fmt3(i.a_bond), " m">>).val,
    flexure_demands_uniform_load(w_uniform, i.s, Lit(6, 10)),
    capacity_flexure_two_way(teff, i.materials.f_r))

\* A variant of CheckModes that carries on with a zero load when the load model
\* raised.
CheckModesSuppressing(i, teff, load) ==
  IF load.exc # "none" THEN CheckAdhesion(i, teff, Zero, Zero)
  ELSE CheckAdhesion(i, teff, load.val[1], load.val[2])

\* check_design once the load model has returned or raised.
CheckModes(i, teff, load) ==
  IF load.exc # "none" THEN load
  ELSE CheckAdhesion(i, teff, load.val[1], load.val[2])

\* check_design: the first exception raised on the way ends the call.
check_design(i) == CheckModes(i, t_effective(i), _panel_load_from_input(i))

\* ------------------------------------------------------------------------
\* Inputs of the model
\* ------------------------------------------------------------------------
\* Number of neighbouring floats above a base value that a sweep visits.
MaxUlps == 3

\* The k-th float above the finite positive float x.
Ulps(x, k) == Round(x[1] + k, x[2])

\* The smallest positive float and a float whose square overflows.
Tiny == <<1, MinExp>>
Huge == <<2^(MantBits - 1), MaxExp - MantBits>>

\* Values outside the ordinary range that every float field takes.
Probes == {FromInt(0 - 1), Zero, Tiny, Huge}

\* tests/test_smoke.py, _default_input
DefaultInput ==
  [s |-> Lit(15, 10), t |-> Lit(10, 100), c |-> Lit(25, 100), gamma_rock |-> FromInt(25),
   load_model |-> "Pyramid60", geology_preset |-> "Generic",
   theta_deg |-> 60, h_block |-> Lit(6, 10),
   materials |-> [f_c |-> FromInt(30), tau_b |-> FromInt(1), f_r |-> Lit(12, 10),
                  tau_v |-> Lit(15, 10), v_rd |-> Lit(12, 10)],
   factors |-> [mode |-> "FOS", phi_flexure |-> Lit(6, 10), phi_shear |-> Lit(6, 10),
                phi_punching |-> Lit(6, 10), gamma_load |-> Lit(15, 10),
                t_dur_deduction |-> Zero],
   age_label |-> "28d", notes |-> "test", a_bond |-> Lit(5, 100)]

\* DesignInput(s=, t=, c=, gamma_rock=, load_model=, theta_deg=, h_block=,
\* materials=, factors=): theta_deg and h_block are given (Some) or left to
\* their defaults 60.0 and 0.5 (None); the other fields take their defaults.
DesignInput(s, t, c, gamma_rock, load_model, theta_deg, h_block, materials, factors) ==
  [s |-> s, t |-> t, c |-> c, gamma_rock |-> gamma_rock, load_model |-> load_model,
   geology_preset |-> "Generic",
   theta_deg |-> IF theta_deg = None THEN 60 ELSE theta_deg[1],
   h_block |-> IF h_block = None THEN Lit(5, 10) ELSE h_block[1],
   materials |-> materials, factors |-> factors,
   age_label |-> "28d", notes |-> "", a_bond |-> Lit(5, 100)]

\* The inputs an evaluation starts from: values of the tests and of the form.
BaseS     == {Lit(12, 10), Lit(18, 10)}
BaseT     == {Lit(8, 100), Lit(14, 100)}
BaseTauB  == {Lit(1, 10), FromInt(1)}
BaseABond == {Zero, Lit(5, 100)}

BaseInputs ==
  {[DefaultInput EXCEPT !.s = s, !.t = t, !.load_model = lm, !.materials.tau_b = tb,
                        !.factors.mode = md, !.a_bond = ab] :
     s \in BaseS, t \in BaseT, lm \in LoadModel, tb \in BaseTauB, md \in DesignMode,
     ab \in BaseABond}

\* Further inputs of the tests and of the form: the durability test's pair
\* (t = 0.12 with deduction 0 and 0.02) and a thin layer under the largest
\* deduction of the form (t = 0.04, deduction 0.05); and the default input with
\* a flat wedge (theta_deg = 0), which carries no load, and with a unit weight
\* the load model rejects (gamma_rock = 0); and a flat wedge under the factored
\* convention with the thinnest layer and the largest flexural strength; and
\* the default input without bond length under a deduction above its thickness.
ExtraInputs ==
  {[DefaultInput EXCEPT !.theta_deg = 0],
   [DefaultInput EXCEPT !.gamma_rock = Zero],
   [DefaultInput EXCEPT !.a_bond = Zero, !.factors.t_dur_deduction = Lit(14, 100)],
   [DefaultInput EXCEPT !.theta_deg = 0, !.t = Tiny, !.materials.f_r = Huge,
                        !.factors.mode = "LRFD"],
   [DefaultInput EXCEPT !.t = Lit(12, 100)],
   [DefaultInput EXCEPT !.t = Lit(12, 100), !.factors.t_dur_deduction = Lit(2, 100)],
   [DefaultInput EXCEPT !.t = Lit(4, 100), !.factors.t_dur_deduction = Lit(5, 100)]}

Near(S) == {Ulps(x, k) : x \in S, k \in 1..MaxUlps}

SVals      == Probes \cup BaseS \cup Near(BaseS) \cup {Lit(15, 10), Lit(24, 10)}
TVals      == Probes \cup BaseT \cup Near(BaseT) \cup {Lit(10, 100), Lit(12, 100)}
CVals      == Probes \cup {Lit(10, 100), Lit(25, 100), Lit(60, 100)}
GammaVals  == Probes \cup {FromInt(15), FromInt(25), FromInt(30)}
ThetaVals  == {0 - 45, 0, 30, 45, 60, 75, 135}
HBlockVals == Probes \cup {Lit(2, 10), Lit(6, 10), FromInt(2)}
StressVals == Probes \cup {Lit(5, 100), Lit(2, 10), FromInt(1), Lit(12, 10), Lit(15, 10),
                           FromInt(4)}
PhiVals    == Probes \cup {Lit(3, 10), Lit(6, 10), Lit(9, 10), FromInt(1)}
LoadFactorVals == Probes \cup {FromInt(1), Lit(15, 10), FromInt(2)}
DurVals    == Probes \cup {Lit(2, 100), Lit(5, 100), Lit(14, 100)}
ABondVals  == Probes \cup {Lit(3, 100), Lit(5, 100), Lit(10, 100)}
GeologyPreset == {"Generic", "HawkesburySandstone", "AshfieldShale"}
AgeLabels  == {"28d", "7d", "User-set"}
NotesVals  == {"", "test", "MVP run"}

\* The inputs that differ from i in the one field named.
With_s(i)     == {[i EXCEPT !.s = v] : v \in SVals}
With_t(i)     == {[i EXCEPT !.t = v] : v \in TVals}
With_c(i)     == {[i EXCEPT !.c = v] : v \in CVals}
With_gamma_rock(i) == {[i EXCEPT !.gamma_rock = v] : v \in GammaVals}
With_load_model(i) == {[i EXCEPT !.load_model = v] : v \in LoadModel}
With_geology_preset(i) == {[i EXCEPT !.geology_preset = v] : v \in GeologyPreset}
With_theta_deg(i) == {[i EXCEPT !.theta_deg = v] : v \in ThetaVals}
With_h_block(i) == {[i EXCEPT !.h_block = v] : v \in HBlockVals}
With_materials(i) ==
  UNION {{[i EXCEPT !.materials.f_c = v], [i EXCEPT !.materials.tau_b = v],
          [i EXCEPT !.materials.f_r = v], [i EXCEPT !.materials.tau_v = v],
          [i EXCEPT !.materials.v_rd = v]} : v \in StressVals}
With_factors(i) ==
  {[i EXCEPT !.factors.mode = v] : v \in DesignMode}
  \cup UNION {{[i EXCEPT !.factors.phi_flexure = v], [i EXCEPT !.factors.phi_shear = v],
               [i EXCEPT !.factors.phi_punching = v]} : v \in PhiVals}
  \cup {[i EXCEPT !.factors.gamma_load = v] : v \in LoadFactorVals}
  \cup {[i EXCEPT !.factors.t_dur_deduction = v] : v \in DurVals}
With_age_label(i) == {[i EXCEPT !.age_label = v] : v \in AgeLabels}
With_notes(i)  == {[i EXCEPT !.notes = v] : v \in NotesVals}
With_a_bond(i) == {[i EXCEPT !.a_bond = v] : v \in ABondVals}

\* The inputs that differ from i in one field other than s.
OneFieldChanged(i) ==
  With_t(i) \cup With_c(i) \cup With_gamma_rock(i) \cup With_load_model(i)
  \cup With_geology_preset(i) \cup With_theta_deg(i) \cup With_h_block(i)
  \cup With_materials(i) \cup With_factors(i) \cup With_age_label(i)
  \cup With_notes(i) \cup With_a_bond(i)

\* Arguments of direct calls of evaluate_fos and evaluate_lrfd.
EvalVals ==
  {FromInt(0 - 1), FNeg(Tiny), Zero, Tiny, Lit(3, 10), Lit(6, 10), FromInt(1),
   Ulps(FromInt(1), 1), Lit(15, 10), FromInt(3), Huge}
EvalFactors == {FromInt(0 - 1), Zero, Tiny, Lit(3, 10), Lit(6, 10), FromInt(1),
                Lit(15, 10), Huge}

\* ------------------------------------------------------------------------
\* State: the input under evaluation and the outcome of check_design on it,
\* the same for the evaluation before it, and a direct call of an evaluator
\* with what it returned.
\* ------------------------------------------------------------------------
VARIABLES inp, out, prev_inp, prev_out, call, ret

vars == <<inp, out, prev_inp, prev_out, call, ret>>

NoCall == [exc |-> "nocall"]

Init ==
  /\ inp \in BaseInputs \cup ExtraInputs
  /\ out = NoCall
  /\ prev_inp = NoCall
  /\ prev_out = NoCall
  /\ call = NoCall
  /\ ret = NoCall

\* res = check_design(inp) on the first input.
Calculate ==
  /\ out = NoCall
  /\ out' = check_design(inp)
  /\ UNCHANGED <<inp, prev_inp, prev_out, call, ret>>

\* A second evaluation, with another spacing: res2 = check_design(inp2).
Sweep_s ==
  /\ out # NoCall
  /\ prev_out = NoCall
  /\ \E i \in With_s(inp) :
       /\ inp' = i
       /\ out' = check_design(i)
  /\ prev_inp' = inp
  /\ prev_out' = out
  /\ UNCHANGED <<call, ret>>

\* A second evaluation, with one other field changed.
Recalculate ==
  /\ out # NoCall
  /\ prev_out = NoCall
  /\ \E i \in OneFieldChanged(inp) :
       /\ inp' = i
       /\ out' = check_design(i)
  /\ prev_inp' = inp
  /\ prev_out' = out
  /\ UNCHANGED <<call, ret>>

Next ==
  \/ Calculate
  \/ Sweep_s
  \/ Recalculate

Spec == Init /\ [][Next]_vars

\* Direct calls of the evaluators (core/capacities.py), one call in a behaviour.
InitEval ==
  /\ inp = NoCall
  /\ out = NoCall
  /\ prev_inp = NoCall
  /\ prev_out = NoCall
  /\ call = NoCall
  /\ ret = NoCall

Call_evaluate_fos ==
  /\ call = NoCall
  /\ \E capacity \in EvalVals, demand \in EvalVals :
       /\ call' = [exc |-> "none", fn |-> "evaluate_fos", capacity |-> capacity,
                   demand |-> demand, phi |-> None, gamma |-> None]
       /\ ret' = evaluate_fos(capacity, demand)
  /\ UNCHANGED <<inp, out, prev_inp, prev_out>>

Call_evaluate_lrfd ==
  /\ call = NoCall
  /\ \E capacity \in EvalVals, demand \in EvalVals, phi \in EvalFactors,
        gamma \in EvalFactors :
       /\ call' = [exc |-> "none", fn |-> "evaluate_lrfd", capacity |-> capacity,
                   demand |-> demand, phi |-> phi, gamma |-> gamma]
       /\ ret' = evaluate_lrfd(capacity, demand, phi, gamma)
  /\ UNCHANGED <<inp, out, prev_inp, prev_out>>

NextEval ==
  \/ Call_evaluate_fos
  \/ Call_evaluate_lrfd

SpecEval == InitEval /\ [][NextEval]_vars

\* Direct calls of the capacity and demand formulas (core/capacities.py), one
\* call in a behaviour; call.a holds the arguments in the order of the
\* signature.
CapVals ==
  {FromInt(0 - 1), FNeg(Tiny), Zero, Tiny, Lit(10, 100), Lit(15, 10), Huge}
TwoWayVals == {Lit(6, 10), FromInt(1)}

CapCall(fn, a) == [exc |-> "none", fn |-> fn, a |-> a]

Call_capacity_adhesion ==
  /\ call = NoCall
  /\ \E s \in CapVals, a_bond \in CapVals, tau_b_MPa \in CapVals :
       /\ call' = CapCall("capacity_adhesion", <<s, a_bond, tau_b_MPa>>)
       /\ ret' = capacity_adhesion(s, a_bond, tau_b_MPa)
  /\ UNCHANGED <<inp, out, prev_inp, prev_out>>

Call_flexure_demands_uniform_load ==
  /\ call = NoCall
  /\ \E w_kNpm2 \in CapVals, s \in CapVals, two_way_factor \in TwoWayVals :
       /\ call' = CapCall("flexure_demands_uniform_load", <<w_kNpm2, s, two_way_factor>>)
       /\ ret' = flexure_demands_uniform_load(w_kNpm2, s, two_way_factor)
  /\ UNCHANGED <<inp, out, prev_inp, prev_out>>

Call_capacity_flexure_two_way ==
  /\ call = NoCall
  /\ \E t_eff \in CapVals, f_r_MPa \in CapVals :
       /\ call' = CapCall("capacity_flexure_two_way", <<t_eff, f_r_MPa>>)
       /\ ret' = capacity_flexure_two_way(t_eff, f_r_MPa)
  /\ UNCHANGED <<inp, out, prev_inp, prev_out>>

Call_punching_demand ==
  /\ call = NoCall
  /\ \E w_kNpm2 \in CapVals, s \in CapVals :
       /\ call' = CapCall("punching_demand", <<w_kNpm2, s>>)
       /\ ret' = punching_demand(w_kNpm2, s)
  /\ UNCHANGED <<inp, out, prev_inp, prev_out>>

Call_capacity_punching ==
  /\ call = NoCall
  /\ \E t_eff \in CapVals, c_plate \in CapVals, v_rd_MPa \in CapVals :
       /\ call' = CapCall("capacity_punching", <<t_eff, c_plate, v_rd_MPa>>)
       /\ ret' = capacity_punching(t_eff, c_plate, v_rd_MPa)
  /\ UNCHANGED <<inp, out, prev_inp, prev_out>>

Call_capacity_direct_shear ==
  /\ call = NoCall
  /\ \E s \in CapVals, t_eff \in CapVals, tau_v_MPa \in CapVals :
       /\ call' = CapCall("capacity_direct_shear", <<s, t_eff, tau_v_MPa>>)
       /\ ret' = capacity_direct_shear(s, t_eff, tau_v_MPa)
  /\ UNCHANGED <<inp, out, prev_inp, prev_out>>

NextCap ==
  \/ Call_capacity_adhesion
  \/ Call_flexure_demands_uniform_load
  \/ Call_capacity_flexure_two_way
  \/ Call_punching_demand
  \/ Call_capacity_punching
  \/ Call_capacity_direct_shear

SpecCap == InitEval /\ [][NextCap]_vars

\* Direct calls of the load functions (core/loads.py) and of
\* _panel_load_from_input on a freshly constructed DesignInput, one call in a
\* behaviour.
LoadThetaVals  == ThetaVals \cup {89}
SurchargeVals  == {Zero, FromInt(2)}
LoadSShort     == {FromInt(0 - 1), Zero, Lit(15, 10)}
LoadGammaShort == {FromInt(0 - 1), Zero, FromInt(25)}
OptThetaVals   == {None} \cup {Some(th) : th \in LoadThetaVals}
OptHBlockVals  == {None, Some(FromInt(0 - 1)), Some(Zero), Some(Lit(6, 10))}
ModelArgs ==
  {"Pyramid60", "pyramid", "FlatBlock", "hawkesbury", "ShaleWedge", " ShaleWedge ",
   "SHALE", "Wedge", ""}

LoadCall(fn, model, s, gamma_rock, theta_deg, h_block, surcharge_uniform, include_sc) ==
  [exc |-> "none", fn |-> fn, model |-> model, s |-> s, gamma_rock |-> gamma_rock,
   theta_deg |-> theta_deg, h_block |-> h_block,
   surcharge_uniform |-> surcharge_uniform, include_sc |-> include_sc]

Call_block_weight_pyramid ==
  /\ call = NoCall
  /\ \E s \in SVals, g \in GammaVals, th \in LoadThetaVals, sur \in SurchargeVals,
        inc \in BOOLEAN :
       /\ call' = LoadCall("block_weight_pyramid", "Pyramid60", s, g, Some(th), None,
                           sur, inc)
       /\ ret' = block_weight_pyramid(s, g, th, sur, inc, Lit(10, 100),
                                      gamma_shotcrete_default)
  /\ UNCHANGED <<inp, out, prev_inp, prev_out>>

Call_block_weight_flat ==
  /\ call = NoCall
  /\ \E s \in SVals, g \in GammaVals, h \in HBlockVals, sur \in SurchargeVals,
        inc \in BOOLEAN :
       /\ call' = LoadCall("block_weight_flat", "FlatBlock", s, g, None, Some(h),
                           sur, inc)
       /\ ret' = block_weight_flat(s, g, h, sur, inc, Lit(10, 100),
                                   gamma_shotcrete_default)
  /\ UNCHANGED <<inp, out, prev_inp, prev_out>>

Call_block_weight_shale ==
  /\ call = NoCall
  /\ \E s \in SVals, g \in GammaVals, th \in LoadThetaVals, sur \in SurchargeVals,
        inc \in BOOLEAN :
       /\ call' = LoadCall("block_weight_shale", "ShaleWedge", s, g, Some(th), None,
                           sur, inc)
       /\ ret' = block_weight_shale(s, g, th, sur, inc, Lit(10, 100),
                                    gamma_shotcrete_default)
  /\ UNCHANGED <<inp, out, prev_inp, prev_out>>

Call_compute_panel_load ==
  /\ call = NoCall
  /\ \E model \in ModelArgs, s \in LoadSShort, g \in LoadGammaShort,
        th \in OptThetaVals, h \in OptHBlockVals :
       /\ call' = LoadCall("compute_panel_load", model, s, g, th, h, Zero, FALSE)
       /\ ret' = compute_panel_load(model, s, g, th, h, Zero, FALSE, Zero,
                                    gamma_shotcrete_default)
  /\ UNCHANGED <<inp, out, prev_inp, prev_out>>

\* _panel_load_from_input(DesignInput(...)), as check_design calls it.
Call_panel_load_from_input ==
  /\ call = NoCall
  /\ \E lm \in LoadModel, s \in LoadSShort, g \in LoadGammaShort,
        th \in OptThetaVals, h \in OptHBlockVals :
       /\ call' = LoadCall("_panel_load_from_input", lm, s, g, th, h, Zero, FALSE)
       /\ ret' = _panel_load_from_input(
                    DesignInput(s, Lit(10, 100), Lit(25, 100), g, lm, th, h,
                                DefaultInput.materials, DefaultInput.factors))
  /\ UNCHANGED <<inp, out, prev_inp, prev_out>>

NextLoad ==
  \/ Call_block_weight_pyramid
  \/ Call_block_weight_flat
  \/ Call_block_weight_shale
  \/ Call_compute_panel_load
  \/ Call_panel_load_from_input

SpecLoad == InitEval /\ [][NextLoad]_vars
\* ------------------------------------------------------------------------
\* Properties of check_design
\* ------------------------------------------------------------------------
ModeNames == {ModeOrder[k] : k \in 1..Len(ModeOrder)}

\* Position of the mode n in the order of insertion.
Index(n) == CHOOSE k \in 1..Len(ModeOrder) : ModeOrder[k] = n

Returned(o) == o.exc = "none"
Fos(o, n)   == o.val.modes[n].fos
Util(o, n)  == o.val.modes[n].utilization

\* C1 as stated: under the Factor-of-Safety convention governing_value is the
\* governing mode's fos and is <= every mode's fos, no earlier mode has the same
\* fos, and ok holds exactly when governing_value >= 1.0.
C1_AsStated ==
  (Returned(out) /\ inp.factors.mode = "FOS") =>
    /\ out.val.governing_mode \in ModeNames
    /\ out.val.governing_value = Fos(out, out.val.governing_mode)
    /\ \A n \in ModeNames : FLe(out.val.governing_value, Fos(out, n))
    /\ \A n \in ModeNames :
         Index(n) < Index(out.val.governing_mode) => Fos(out, n) # out.val.governing_value
    /\ out.val.ok <=> FGe(out.val.governing_value, FromInt(1))

\* C2 as stated: under the factored convention governing_value is the governing
\* mode's utilisation and is >= every mode's utilisation, no earlier mode has
\* the same utilisation, and ok holds exactly when governing_value <= 1.0.
C2_AsStated ==
  (Returned(out) /\ inp.factors.mode = "LRFD") =>
    /\ out.val.governing_mode \in ModeNames
    /\ out.val.governing_value = Util(out, out.val.governing_mode)
    /\ \A n \in ModeNames : FGe(out.val.governing_value, Util(out, n))
    /\ \A n \in ModeNames :
         Index(n) < Index(out.val.governing_mode) => Util(out, n) # out.val.governing_value
    /\ out.val.ok <=> FLe(out.val.governing_value, FromInt(1))

\* The load-model parameters of i are invalid.
InvalidLoadParameters(i) ==
  \/ FLe(i.s, Zero)
  \/ FLe(i.gamma_rock, Zero)
  \/ (i.load_model = "FlatBlock" /\ FLe(i.h_block, Zero))

\* C3: an evaluation of an input with invalid load-model parameters (s <= 0,
\* gamma_rock <= 0, or h_block <= 0 with the flat block) ends in ValueError and
\* returns no DesignResult, whatever the other fields are.
C3_LoadFailureNotSuppressed ==
  (out # NoCall /\ InvalidLoadParameters(inp)) => out.exc = "ValueError"

\* An evaluation under the flat block that failed on h_block alone.
C3_Witness ==
  /\ out.exc = "ValueError"
  /\ inp.load_model = "FlatBlock"
  /\ FLe(inp.h_block, Zero)
  /\ FGt(inp.s, Zero)
  /\ FGt(inp.gamma_rock, Zero)

\* C4 as stated: an evaluation of an input with s > 0, gamma_rock > 0 (and
\* h_block > 0 under the flat block) returns a DesignResult and raises nothing,
\* whatever the other fields are.
C4_AsStated ==
  (out # NoCall /\ ~InvalidLoadParameters(inp) /\ FGt(inp.s, Zero)
     /\ FGt(inp.gamma_rock, Zero)) => Returned(out)

\* ------------------------------------------------------------------------
\* Properties of the evaluators
\* ------------------------------------------------------------------------
Called(fn) == call # NoCall /\ call.fn = fn

\* C5: for every demand and gamma, evaluate_lrfd returns (+inf, False), by
\* value, whenever phi <= 0 or capacity <= 0 or the product phi*capacity <= 0.
C5_UnevaluableNeverPasses ==
  (/\ Called("evaluate_lrfd")
   /\ \/ FLe(call.phi, Zero)
      \/ FLe(call.capacity, Zero)
      \/ FLe(FMul(call.phi, call.capacity), Zero))
    => ret = Ret(<<PosInf, FALSE>>)

\* The boundary case: capacity <= 0 with phi > 0 and a positive demand.
C5_Witness ==
  /\ Called("evaluate_lrfd")
  /\ FLe(call.capacity, Zero) /\ FGt(call.phi, Zero) /\ FGt(call.demand, Zero)
  /\ ret = Ret(<<PosInf, FALSE>>)

\* C6: evaluate_fos with demand <= 0 returns (+inf, True) for every capacity.
C6_NoDemandPasses ==
  (Called("evaluate_fos") /\ FLe(call.demand, Zero)) => ret = Ret(<<PosInf, TRUE>>)

\* No demand and no capacity either.
C6_Witness ==
  /\ Called("evaluate_fos")
  /\ FLe(call.demand, Zero) /\ FLe(call.capacity, Zero)
  /\ ret = Ret(<<PosInf, TRUE>>)

FactoredDemand   == FMul(call.gamma, PyMax(call.demand, Zero))
FactoredCapacity == FMul(call.phi, call.capacity)

\* C8 as stated: for capacity > 0 and phi > 0, evaluate_lrfd returns
\* utilisation = gamma*max(demand, 0) / (phi*capacity) and pass = (utilisation
\* <= 1.0), pass holds exactly when phi*capacity >= gamma*max(demand, 0), and a
\* negative demand gives utilisation 0.
C8_AsStated ==
  (Called("evaluate_lrfd") /\ FGt(call.capacity, Zero) /\ FGt(call.phi, Zero)) =>
    /\ ret.exc = "none"
    /\ ~IsZero(FactoredCapacity)
    /\ ret.val[1] = FDiv(FactoredDemand, FactoredCapacity)
    /\ ret.val[2] <=> FLe(ret.val[1], FromInt(1))
    /\ ret.val[2] <=> FGe(FactoredCapacity, FactoredDemand)
    /\ FLt(call.demand, Zero) => ret.val[1] = Zero

\* C8, amended: for capacity > 0, phi > 0 and a float product phi*capacity > 0,
\* evaluate_lrfd returns utilisation = gamma*max(demand, 0) / (phi*capacity) and
\* pass = (utilisation <= 1.0); pass holds exactly when phi*capacity >=
\* gamma*max(demand, 0), unless both products are infinite, where the
\* utilisation is nan and pass is False; a negative demand gives utilisation 0.
C8_FactoredRatio ==
  (/\ Called("evaluate_lrfd")
   /\ FGt(call.capacity, Zero) /\ FGt(call.phi, Zero)
   /\ FGt(FactoredCapacity, Zero)) =>
    /\ ret.exc = "none"
    /\ ret.val[1] = FDiv(FactoredDemand, FactoredCapacity)
    /\ ret.val[2] <=> FLe(ret.val[1], FromInt(1))
    /\ IF IsInf(FactoredDemand) /\ IsInf(FactoredCapacity)
       THEN IsNaN(ret.val[1]) /\ ~ret.val[2]
       ELSE ret.val[2] <=> FGe(FactoredCapacity, FactoredDemand)
    /\ FLt(call.demand, Zero) => ret.val[1] = Zero

\* A negative demand against a positive factored capacity: utilisation 0, pass.
C8_Witness ==
  /\ Called("evaluate_lrfd")
  /\ FGt(call.capacity, Zero) /\ FGt(call.phi, Zero) /\ FGt(FactoredCapacity, Zero)
  /\ FLt(call.demand, Zero) /\ FGt(call.gamma, Zero)
  /\ ret = Ret(<<Zero, TRUE>>)

\* ------------------------------------------------------------------------
\* Properties of the mode results and of the spacing
\* ------------------------------------------------------------------------
\* The inputs the smoke test calls valid, once the load model has accepted them.
ValidInput(i) ==
  /\ FGt(i.s, Zero) /\ FGt(i.t, Zero) /\ FGe(i.c, Zero) /\ FGt(i.gamma_rock, Zero)

\* C9 as stated: for a valid input (s > 0, t > 0, c >= 0, gamma_rock > 0, load
\* model's checks passed) each of the four mode results has demand >= 0 and
\* capacity >= 0.
C9_AsStated ==
  (Returned(out) /\ ValidInput(inp)) =>
    \A n \in ModeNames :
      /\ FGe(out.val.modes[n].demand, Zero)
      /\ FGe(out.val.modes[n].capacity, Zero)

\* C9, amended: for a valid input whose wedge angle has tan(theta) >= 0 under
\* the pyramid and shale models, each of the four mode results has demand >= 0
\* and a capacity that is >= 0 or nan, never negative.
C9_NonNegativeModes ==
  (/\ Returned(out) /\ ValidInput(inp)
   /\ inp.load_model # "FlatBlock" => FGe(TanDeg(inp.theta_deg), Zero)) =>
    \A n \in ModeNames :
      /\ FGe(out.val.modes[n].demand, Zero)
      /\ FGe(out.val.modes[n].capacity, Zero) \/ IsNaN(out.val.modes[n].capacity)

\* A valid wedge input with a negative a_bond: the adhesion capacity is 0, the
\* demands are positive.
C9_Witness ==
  /\ Returned(out) /\ ValidInput(inp)
  /\ inp.load_model # "FlatBlock" /\ FGt(TanDeg(inp.theta_deg), Zero)
  /\ FLt(inp.a_bond, Zero)
  /\ out.val.modes["Adhesion"].capacity = Zero
  /\ \A n \in ModeNames : FGt(out.val.modes[n].demand, Zero)

\* rel_tol of the spacing test, 1e-6 against a unit roundoff of 2^-53: here 32
\* units of roundoff.
rel_tol == <<1, 5 - MantBits>>

FAbs(x) == <<Abs(x[1]), x[2]>>

\* math.isclose(a, b, rel_tol=rel_tol)
isclose(a, b) ==
  IF IsNaN(a) \/ IsNaN(b) THEN FALSE
  ELSE IF a = b THEN TRUE
  ELSE IF IsInf(a) \/ IsInf(b) THEN FALSE
  ELSE \/ FLe(FAbs(FSub(b, a)), FAbs(FMul(rel_tol, b)))
       \/ FLe(FAbs(FSub(b, a)), FAbs(FMul(rel_tol, a)))

\* x is zero or of a magnitude between 2^-10 and 2^10.
OrdinaryMagnitude(x) ==
  IsZero(x) \/ (FGe(FAbs(x), <<1, 0 - 10>>) /\ FLe(FAbs(x), <<1, 10>>))

OrdinaryInput(i) ==
  /\ \A x \in {i.s, i.t, i.c, i.gamma_rock, i.h_block, i.a_bond} : OrdinaryMagnitude(x)
  /\ \A x \in {i.materials.f_c, i.materials.tau_b, i.materials.f_r,
               i.materials.tau_v, i.materials.v_rd} : OrdinaryMagnitude(x)
  /\ \A x \in {i.factors.phi_flexure, i.factors.phi_shear, i.factors.phi_punching,
               i.factors.gamma_load, i.factors.t_dur_deduction} : OrdinaryMagnitude(x)

\* Two evaluations under the Factor-of-Safety convention of inputs that differ
\* only in s, the first at the smaller spacing i1.s < i2.s.
SpacingPair(i1, o1, i2, o2) ==
  /\ o1 # NoCall /\ o2 # NoCall /\ Returned(o1) /\ Returned(o2)
  /\ i1.factors.mode = "FOS"
  /\ [i2 EXCEPT !.s = i1.s] = i1
  /\ FLt(i1.s, i2.s)

\* C10 as stated: under the Factor-of-Safety convention, of two inputs that
\* differ only in s, the one with the larger s has a governing value that is not
\* greater.
C10_AsStated ==
  /\ SpacingPair(prev_inp, prev_out, inp, out) =>
       FLe(out.val.governing_value, prev_out.val.governing_value)
  /\ SpacingPair(inp, out, prev_inp, prev_out) =>
       FLe(prev_out.val.governing_value, out.val.governing_value)

\* C10, amended: under the Factor-of-Safety convention, of two inputs of
\* ordinary magnitude that differ only in s, the one with the larger s has a
\* governing value that is not greater, or is close to the other within rel_tol.
C10_SpacingWithinTolerance ==
  /\ (SpacingPair(prev_inp, prev_out, inp, out)
        /\ OrdinaryInput(prev_inp) /\ OrdinaryInput(inp)) =>
       \/ FLe(out.val.governing_value, prev_out.val.governing_value)
       \/ isclose(prev_out.val.governing_value, out.val.governing_value)
  /\ (SpacingPair(inp, out, prev_inp, prev_out)
        /\ OrdinaryInput(prev_inp) /\ OrdinaryInput(inp)) =>
       \/ FLe(prev_out.val.governing_value, out.val.governing_value)
       \/ isclose(out.val.governing_value, prev_out.val.governing_value)

\* The pair of the spacing test, s = 1.2 and then s = 2.4, with a governing
\* value that went down.
C10_Witness ==
  /\ SpacingPair(prev_inp, prev_out, inp, out)
  /\ OrdinaryInput(prev_inp) /\ OrdinaryInput(inp)
  /\ prev_inp.s = Lit(12, 10) /\ inp.s = Lit(24, 10)
  /\ FLt(out.val.governing_value, prev_out.val.governing_value)

\* ------------------------------------------------------------------------
\* Properties of the thickness
\* ------------------------------------------------------------------------
FlexCap(o) == o.val.modes["Flexure"].capacity
Teff(o)    == o.val.derived.t_eff

\* Two evaluations that returned, of inputs that differ only in t, i1.t < i2.t.
ThicknessPair(i1, o1, i2, o2) ==
  /\ o1 # NoCall /\ o2 # NoCall /\ Returned(o1) /\ Returned(o2)
  /\ [i2 EXCEPT !.t = i1.t] = i1
  /\ FLt(i1.t, i2.t)

\* The flexural capacity of o2 is not below that of o1 (a nan capacity is below
\* nothing), and is above it when f_r > 0, the inputs are of ordinary magnitude
\* and the effective thicknesses are not close.
FlexCapGrows(i1, o1, i2, o2) ==
  /\ ~FLt(FlexCap(o2), FlexCap(o1))
  /\ (/\ FGt(i1.materials.f_r, Zero)
      /\ OrdinaryInput(i1) /\ OrdinaryInput(i2)
      /\ ~isclose(Teff(o1), Teff(o2))) => FGt(FlexCap(o2), FlexCap(o1))

\* C11 as stated: of two inputs that differ only in t, the one with the larger
\* t has the strictly greater Flexure capacity.
C11_AsStated ==
  /\ ThicknessPair(prev_inp, prev_out, inp, out) => FGt(FlexCap(out), FlexCap(prev_out))
  /\ ThicknessPair(inp, out, prev_inp, prev_out) => FGt(FlexCap(prev_out), FlexCap(out))

\* C11, amended: of two inputs that differ only in t, the one with the larger t
\* has a Flexure capacity that is not smaller, and strictly greater when f_r > 0,
\* the inputs are of ordinary magnitude and the two effective thicknesses differ
\* by more than rel_tol.
C11_ThickerNotWeaker ==
  /\ ThicknessPair(prev_inp, prev_out, inp, out) =>
       FlexCapGrows(prev_inp, prev_out, inp, out)
  /\ ThicknessPair(inp, out, prev_inp, prev_out) =>
       FlexCapGrows(inp, out, prev_inp, prev_out)

\* The pair of the thickness test, t = 0.08 and then t = 0.14.
C11_Witness ==
  /\ ThicknessPair(prev_inp, prev_out, inp, out)
  /\ prev_inp.t = Lit(8, 100) /\ inp.t = Lit(14, 100)
  /\ FGt(FlexCap(out), FlexCap(prev_out))

\* Two evaluations that returned, of inputs that differ only in the durability
\* deduction, that of i1 below that of i2.
DeductionPair(i1, o1, i2, o2) ==
  /\ o1 # NoCall /\ o2 # NoCall /\ Returned(o1) /\ Returned(o2)
  /\ [i2 EXCEPT !.factors.t_dur_deduction = i1.factors.t_dur_deduction] = i1
  /\ FLt(i1.factors.t_dur_deduction, i2.factors.t_dur_deduction)

\* C12 as stated: of two inputs that differ only in the durability deduction,
\* the one with the larger deduction has the strictly smaller Flexure capacity.
C12_AsStated ==
  /\ DeductionPair(prev_inp, prev_out, inp, out) => FLt(FlexCap(out), FlexCap(prev_out))
  /\ DeductionPair(inp, out, prev_inp, prev_out) => FLt(FlexCap(prev_out), FlexCap(out))

\* C12, amended: of two inputs that differ only in the durability deduction,
\* the one with the larger deduction has a Flexure capacity that is not greater,
\* and strictly smaller when f_r > 0, the inputs are of ordinary magnitude and
\* the two effective thicknesses differ by more than rel_tol.
C12_DeductionNotStronger ==
  /\ DeductionPair(prev_inp, prev_out, inp, out) =>
       FlexCapGrows(inp, out, prev_inp, prev_out)
  /\ DeductionPair(inp, out, prev_inp, prev_out) =>
       FlexCapGrows(prev_inp, prev_out, inp, out)

\* The pair of the durability test: t = 0.12 with deduction 0 and then 0.02.
C12_Witness ==
  /\ DeductionPair(prev_inp, prev_out, inp, out)
  /\ inp.t = Lit(12, 100)
  /\ IsZero(prev_inp.factors.t_dur_deduction)
  /\ inp.factors.t_dur_deduction = Lit(2, 100)
  /\ FLt(FlexCap(out), FlexCap(prev_out))

\* ------------------------------------------------------------------------
\* Properties of the factored convention
\* ------------------------------------------------------------------------
\* Utilisation is set and fos is unset on each of the four modes of o.
UtilisationPopulated(o) ==
  \A n \in ModeNames : Util(o, n) # None /\ Fos(o, n) = None

\* C13 as stated: the evaluation of an input under the factored convention (an
\* input switched from the Factor-of-Safety convention, all else identical) has
\* utilisation set and fos unset on each of the four modes, and a governing
\* value > 0.
C13_AsStated ==
  (Returned(out) /\ inp.factors.mode = "LRFD") =>
    /\ UtilisationPopulated(out)
    /\ FGt(out.val.governing_value, Zero)

\* C13, amended: the evaluation of an input under the factored convention has
\* utilisation set and fos unset on each of the four modes; its governing value
\* is > 0 when gamma_load > 0, some mode has a demand > 0 and the input is of
\* ordinary magnitude.
C13_FactoredSwitch ==
  (Returned(out) /\ inp.factors.mode = "LRFD") =>
    /\ UtilisationPopulated(out)
    /\ (/\ FGt(inp.factors.gamma_load, Zero)
        /\ \E n \in ModeNames : FGt(out.val.modes[n].demand, Zero)
        /\ OrdinaryInput(inp)) => FGt(out.val.governing_value, Zero)

\* The switch itself: the evaluation before was of the same input under the
\* Factor-of-Safety convention.
C13_Witness ==
  /\ Returned(out) /\ inp.factors.mode = "LRFD"
  /\ prev_out # NoCall /\ Returned(prev_out)
  /\ prev_inp = [inp EXCEPT !.factors.mode = "FOS"]
  /\ \A n \in ModeNames : Fos(prev_out, n) # None
  /\ UtilisationPopulated(out)
  /\ IsFinite(out.val.governing_value) /\ FGt(out.val.governing_value, Zero)

\* ------------------------------------------------------------------------
\* Properties of the effective thickness
\* ------------------------------------------------------------------------
\* max(0, x) on floats.
ClampAtZero(x) == IF FGt(x, Zero) THEN x ELSE Zero

\* The thickness-dependent capacities of o are those of the thickness te.
CapacitiesUse(i, o, te) ==
  /\ FlexCap(o) = capacity_flexure_two_way(te, i.materials.f_r).val
  /\ o.val.modes["Punching"].capacity = capacity_punching(te, i.c, i.materials.v_rd).val
  /\ o.val.modes["DirectShear"].capacity =
       capacity_direct_shear(i.s, te, i.materials.tau_v).val

C15_AsStated ==
  /\ (/\ Called("compute_panel_load")
      /\ StripLower(call.model) \in {"shalewedge", "shale"}
      /\ call.theta_deg = None) => ret.exc = "ValueError"
  /\ (/\ Called("_panel_load_from_input")
      /\ call.model = "ShaleWedge"
      /\ call.theta_deg = None) => ret.exc = "ValueError"

LoadFunctions ==
  {"block_weight_pyramid", "block_weight_flat", "block_weight_shale",
   "compute_panel_load", "_panel_load_from_input"}

CalledLoad == call # NoCall /\ call.fn \in LoadFunctions

\* C16: every load-model variant, however it is called, raises ValueError and
\* returns no (weight, pressure) pair when s <= 0 or gamma_rock <= 0, whatever
\* the other arguments are.
C16_LoadRejectsNonPositive ==
  (CalledLoad /\ (FLe(call.s, Zero) \/ FLe(call.gamma_rock, Zero))) =>
    ret.exc = "ValueError"

\* The shale wedge with a valid spacing and a gamma_rock that is not positive.
C16_Witness ==
  /\ Called("block_weight_shale")
  /\ FGt(call.s, Zero) /\ FLe(call.gamma_rock, Zero)
  /\ ret.exc = "ValueError"

\* A call with no surcharge and the shotcrete self-weight excluded.
RockOnly == IsZero(call.surcharge_uniform) /\ ~call.include_sc

\* C17 as stated: without surcharge and self-weight the flat block raises
\* ValueError whenever h_block <= 0, and for every s > 0, gamma_rock > 0,
\* h_block > 0 returns weight = s^2 * h_block * gamma_rock and pressure =
\* weight / s^2.
C17_AsStated ==
  (Called("block_weight_flat") /\ RockOnly) =>
    IF FLe(call.h_block[1], Zero) THEN ret.exc = "ValueError"
    ELSE (FGt(call.s, Zero) /\ FGt(call.gamma_rock, Zero)) =>
           /\ ret.exc = "none"
           /\ ret.val[1] =
                FMul(FMul(FMul(call.s, call.s), call.h_block[1]), call.gamma_rock)
           /\ ret.val[2] = FDiv(ret.val[1], FMul(call.s, call.s))

\* (1/3) * s^2 * ((s/2) * tan(theta)) * gamma_rock on floats, s2 being s^2.
WedgeWeight(s, s2, theta_deg, gamma_rock) ==
  FMul(FMul(FMul(Lit(1, 3), s2), FMul(FDiv(s, FromInt(2)), TanDeg(theta_deg))),
       gamma_rock)

\* The call of the other wedge function with the arguments of this call.
OtherWedge ==
  IF call.fn = "block_weight_shale"
  THEN block_weight_pyramid(call.s, call.gamma_rock, call.theta_deg[1],
                            call.surcharge_uniform, call.include_sc, Lit(10, 100),
                            gamma_shotcrete_default)
  ELSE block_weight_shale(call.s, call.gamma_rock, call.theta_deg[1],
                          call.surcharge_uniform, call.include_sc, Lit(10, 100),
                          gamma_shotcrete_default)

\* The same wedge call at angle 0.
WedgeAtZero ==
  block_weight_pyramid(call.s, call.gamma_rock, 0, call.surcharge_uniform,
                       call.include_sc, Lit(10, 100), gamma_shotcrete_default)

CalledWedge == call # NoCall /\ call.fn \in {"block_weight_pyramid", "block_weight_shale"}

\* C18: the pyramid and the shale wedge give the same outcome for the same
\* arguments; without surcharge and self-weight a returned weight is
\* (1/3) * s^2 * ((s/2) * tan(theta)) * gamma_rock and the pressure is
\* weight / s^2; the angle 0 gives weight 0; the angle is not clamped and never
\* the cause of an error: a call fails only if it fails at angle 0 too, and a
\* negative tangent gives a weight <= 0.
C18_WedgesAgree ==
  CalledWedge =>
    /\ ret = OtherWedge
    /\ ret.exc = WedgeAtZero.exc
    /\ (RockOnly /\ Returned(ret)) =>
         /\ ret.val[1] = WedgeWeight(call.s, FMul(call.s, call.s), call.theta_deg[1],
                                     call.gamma_rock)
         /\ ret.val[2] = FDiv(ret.val[1], FMul(call.s, call.s))
         /\ call.theta_deg[1] = 0 => IsZero(ret.val[1])
         /\ FLt(TanDeg(call.theta_deg[1]), Zero) => FLe(ret.val[1], Zero)

\* The shale wedge at 135 degrees: a negative weight, no error.
C18_Witness ==
  /\ Called("block_weight_shale") /\ RockOnly
  /\ call.theta_deg[1] = 135
  /\ Returned(ret)
  /\ FLt(ret.val[1], Zero)
  /\ ret = OtherWedge

\* ------------------------------------------------------------------------
\* A single non-physical strength
\* ------------------------------------------------------------------------
\* The strength each mode's capacity is computed from.
ModeStrength(i, n) ==
  CASE n = "Adhesion"    -> i.materials.tau_b
    [] n = "Flexure"     -> i.materials.f_r
    [] n = "DirectShear" -> i.materials.tau_v
    [] n = "Punching"    -> i.materials.v_rd

\* The strength of mode n is negative and no other strength is.
OnlyNegativeStrength(i, n) ==
  /\ FLt(ModeStrength(i, n), Zero)
  /\ \A m \in ModeNames \ {n} : ~FLt(ModeStrength(i, m), Zero)

\* An evaluation of an input with valid load-model parameters in which the
\* strength of mode n is the only negative one.
BadStrengthCase(n) ==
  /\ out # NoCall
  /\ ~InvalidLoadParameters(inp)
  /\ OnlyNegativeStrength(inp, n)

\* C19 as stated: with exactly one negative strength and valid load-model
\* parameters check_design returns a DesignResult in which the mode using that
\* strength has capacity 0 and passes = false.
C19_AsStated ==
  \A n \in ModeNames :
    BadStrengthCase(n) =>
      /\ Returned(out)
      /\ out.val.modes[n].capacity = Zero
      /\ out.val.modes[n].passes = FALSE

\* C19: with exactly one negative strength and valid load-model parameters an
\* input of ordinary magnitude gets a DesignResult, and in every DesignResult
\* returned the mode using that strength has capacity 0; the mode passes
\* exactly when the convention is Factor-of-Safety and its demand is <= 0 (then
\* its fos is +inf), and fails otherwise.
C19_NegativeStrengthFails ==
  \A n \in ModeNames :
    BadStrengthCase(n) =>
      /\ OrdinaryInput(inp) => Returned(out)
      /\ Returned(out) =>
           /\ out.val.modes[n].capacity = Zero
           /\ out.val.modes[n].passes =
                (inp.factors.mode = "FOS" /\ FLe(out.val.modes[n].demand, Zero))
           /\ out.val.modes[n].passes => Fos(out, n) = PosInf

\* A negative residual flexural strength under a load: Flexure has capacity 0
\* and fails, the evaluation returns.
C19_Witness ==
  /\ BadStrengthCase("Flexure")
  /\ Returned(out)
  /\ FGt(out.val.modes["Flexure"].demand, Zero)
  /\ out.val.modes["Flexure"].capacity = Zero
  /\ out.val.modes["Flexure"].passes = FALSE
  /\ out.val.modes["Punching"].passes = TRUE

\* ------------------------------------------------------------------------
\* Fields an evaluation does not read
\* ------------------------------------------------------------------------
\* A second evaluation has been made: inp/out after prev_inp/prev_out.
Reevaluated == prev_out # NoCall /\ out # NoCall

\* inp and prev_inp differ, and only in the reduction factors and the load
\* factor.
FactorsOnlyChanged ==
  /\ Reevaluated
  /\ inp # prev_inp
  /\ [inp EXCEPT !.factors.phi_flexure = prev_inp.factors.phi_flexure,
                 !.factors.phi_shear = prev_inp.factors.phi_shear,
                 !.factors.phi_punching = prev_inp.factors.phi_punching,
                 !.factors.gamma_load = prev_inp.factors.gamma_load] = prev_inp

\* C21: under the Factor-of-Safety convention two inputs that differ only in
\* phi_flexure, phi_shear, phi_punching or gamma_load (any values) have the
\* same outcome of check_design: identical DesignResults.
C21_FactorsUnusedUnderFos ==
  (FactorsOnlyChanged /\ inp.factors.mode = "FOS") => out = prev_out

\* The shear reduction factor set to a value that is not positive under FOS.
C21_Witness ==
  /\ FactorsOnlyChanged /\ inp.factors.mode = "FOS"
  /\ FLe(inp.factors.phi_shear, Zero) /\ FGt(prev_inp.factors.phi_shear, Zero)
  /\ Returned(out) /\ out = prev_out
  /\ FGt(out.val.modes["Adhesion"].demand, Zero)

\* inp and prev_inp differ, and only in fields irrelevant to the selected
\* computation: age label, notes, geology preset, the wedge angle under the
\* flat block, the block height under a wedge.
IrrelevantOnlyChanged ==
  /\ Reevaluated
  /\ inp # prev_inp
  /\ [inp EXCEPT !.age_label = prev_inp.age_label,
                 !.notes = prev_inp.notes,
                 !.geology_preset = prev_inp.geology_preset,
                 !.theta_deg = IF inp.load_model = "FlatBlock"
                               THEN prev_inp.theta_deg ELSE @,
                 !.h_block = IF inp.load_model # "FlatBlock"
                             THEN prev_inp.h_block ELSE @] = prev_inp

\* C22: two inputs that differ only in age label, notes, geology preset, the
\* wedge angle while the flat block is selected, or the block height while a
\* wedge is selected (a height <= 0 included) have the same outcome of
\* check_design: the same error, or identical DesignResults.
C22_IrrelevantFieldsIgnored ==
  IrrelevantOnlyChanged => out = prev_out

\* A wedge input whose block height is changed to a value <= 0.
C22_Witness ==
  /\ IrrelevantOnlyChanged
  /\ inp.load_model = "ShaleWedge"
  /\ FLe(inp.h_block, Zero) /\ FGt(prev_inp.h_block, Zero)
  /\ Returned(out) /\ out = prev_out

\* The notes changed on an input the load model rejects: the same error.
IrrelevantChangeKeepsError ==
  /\ IrrelevantOnlyChanged
  /\ inp.notes # prev_inp.notes
  /\ out.exc = "ValueError" /\ out = prev_out

\* inp and prev_inp differ, and only in the nominal thickness, the durability
\* deduction, the plate width, the bond length and the material strengths.
SectionOnlyChanged ==
  /\ Reevaluated
  /\ inp # prev_inp
  /\ [inp EXCEPT !.t = prev_inp.t,
                 !.factors.t_dur_deduction = prev_inp.factors.t_dur_deduction,
                 !.c = prev_inp.c,
                 !.a_bond = prev_inp.a_bond,
                 !.materials = prev_inp.materials] = prev_inp

\* The load of i with surcharge and shotcrete self-weight excluded.
RockLoad(i) ==
  IF i.load_model = "FlatBlock"
  THEN block_weight_flat(i.s, i.gamma_rock, i.h_block, Zero, FALSE, Zero,
                         gamma_shotcrete_default)
  ELSE block_weight_pyramid(i.s, i.gamma_rock, i.theta_deg, Zero, FALSE, Zero,
                            gamma_shotcrete_default)

\* C23: the reported W_total_kN and w_kNpm2 are the rock load alone (no
\* surcharge, no shotcrete self-weight), and between two evaluations that
\* returned and differ only in thickness, durability deduction, plate width,
\* bond length or material strengths, the reported load and every mode's demand
\* are the same.
C23_LoadFrame ==
  /\ Returned(out) =>
       <<out.val.derived.W_total_kN, out.val.derived.w_kNpm2>> = RockLoad(inp).val
  /\ (SectionOnlyChanged /\ Returned(out) /\ Returned(prev_out)) =>
       /\ out.val.derived.W_total_kN = prev_out.val.derived.W_total_kN
       /\ out.val.derived.w_kNpm2 = prev_out.val.derived.w_kNpm2
       /\ \A n \in ModeNames : out.val.modes[n].demand = prev_out.val.modes[n].demand

\* A thicker layer under a positive load: the load and the demands stay.
C23_Witness ==
  /\ SectionOnlyChanged /\ Returned(out) /\ Returned(prev_out)
  /\ FGt(inp.t, prev_inp.t)
  /\ FGt(out.val.derived.W_total_kN, Zero)
  /\ out.val.derived.W_total_kN = prev_out.val.derived.W_total_kN
  /\ out.val.modes["Flexure"].capacity # prev_out.val.modes["Flexure"].capacity
  /\ out.val.modes["Flexure"].demand = prev_out.val.modes["Flexure"].demand

\* ------------------------------------------------------------------------
\* Shape of a DesignResult
\* ------------------------------------------------------------------------
\* C24: every DesignResult returned has exactly the four modes Adhesion,
\* Flexure, Punching and DirectShear, its governing mode is one of the four
\* names, and each mode carries fos and no utilisation under the
\* Factor-of-Safety convention, utilisation and no fos under the factored one.
C24_FourModes ==
  Returned(out) =>
    /\ DOMAIN out.val.modes = ModeNames
    /\ Cardinality(DOMAIN out.val.modes) = 4
    /\ out.val.governing_mode \in ModeNames
    /\ \A n \in ModeNames :
         IF inp.factors.mode = "FOS"
         THEN Fos(out, n) # None /\ Util(out, n) = None
         ELSE Util(out, n) # None /\ Fos(out, n) = None

\* A result under FOS in which no mode has a fos below the initial 0.0 of the
\* loop, governed by a mode that is not the first.
C24_Witness ==
  /\ Returned(out) /\ inp.factors.mode = "FOS"
  /\ \A n \in ModeNames : FGt(Fos(out, n), Zero)
  /\ out.val.governing_mode \in ModeNames \ {"Adhesion"}

\* ------------------------------------------------------------------------
\* Properties of the capacity and demand formulas
\* ------------------------------------------------------------------------
\* The call made supplies a non-physical input in the sense of C25.
NonPhysicalCall ==
  /\ call # NoCall
  /\ CASE call.fn = "capacity_adhesion" ->
            FLe(call.a[1], Zero) \/ FLt(call.a[2], Zero) \/ FLt(call.a[3], Zero)
       [] call.fn \in {"flexure_demands_uniform_load", "punching_demand"} ->
            FLe(call.a[2], Zero) \/ FLt(call.a[1], Zero)
       [] call.fn = "capacity_flexure_two_way" ->
            FLe(call.a[1], Zero) \/ FLe(call.a[2], Zero)
       [] call.fn = "capacity_punching" ->
            FLe(call.a[1], Zero) \/ FLt(call.a[2], Zero) \/ FLe(call.a[3], Zero)
       [] call.fn = "capacity_direct_shear" ->
            FLe(call.a[1], Zero) \/ FLe(call.a[2], Zero) \/ FLe(call.a[3], Zero)
       [] OTHER -> FALSE

\* C25: each capacity and demand formula returns exactly 0.0, without raising,
\* when a non-physical input is supplied: adhesion capacity for s <= 0,
\* a_bond < 0 or tau_b < 0; flexure and punching demand for s <= 0 or w < 0;
\* flexure capacity for t_eff <= 0 or f_r <= 0; punching capacity for
\* t_eff <= 0, c < 0 or v_rd <= 0; direct-shear capacity for s <= 0, t_eff <= 0
\* or tau_v <= 0.
C25_ZeroForNonPhysical ==
  NonPhysicalCall => ret = Ret(Zero)

\* The direct-shear capacity at a negative spacing, thickness and strength
\* positive.
C25_Witness ==
  /\ Called("capacity_direct_shear") /\ NonPhysicalCall
  /\ FLt(call.a[1], Zero) /\ FGt(call.a[2], Zero) /\ FGt(call.a[3], Zero)
  /\ ret = Ret(Zero)

\* ------------------------------------------------------------------------
\* The table of demands and capacities
\* ------------------------------------------------------------------------
\* 1 MPa = 1000 kN/m^2, the factor of the table.
KiloNewtonPerMPa == FromInt(1000)

\* The table's demand of mode n for block weight W and pressure w, in floats.
TableDemand(n, i, W, w) ==
  CASE n = "Adhesion"    -> W
    [] n = "Flexure"     -> FMul(Lit(6, 10), FDiv(FMul(w, FMul(i.s, i.s)), FromInt(8)))
    [] n = "Punching"    -> FDiv(FMul(w, FMul(i.s, i.s)), FromInt(4))
    [] n = "DirectShear" -> W

\* The table's capacity of mode n for effective thickness te, in floats.
TableCapacity(n, i, te) ==
  CASE n = "Adhesion" ->
         FMul(FMul(i.materials.tau_b, KiloNewtonPerMPa),
              FMul(FMul(FromInt(4), i.s), i.a_bond))
    [] n = "Flexure" ->
         FMul(FMul(i.materials.f_r, KiloNewtonPerMPa), FDiv(FMul(te, te), FromInt(6)))
    [] n = "Punching" ->
         FMul(FMul(FMul(i.materials.v_rd, KiloNewtonPerMPa),
                   FMul(FromInt(4),
                        FAdd(i.c, FMul(Lit(1, 2), FMul(Lit(9, 10), te))))),
              FMul(Lit(9, 10), te))
    [] n = "DirectShear" ->
         FMul(FMul(i.materials.tau_v, KiloNewtonPerMPa), FMul(FMul(FromInt(4), i.s), te))

\* The strength (or bond length) mode n's capacity formula rejects.
RejectedStrength(i, n) ==
  CASE n = "Adhesion"    -> FLt(i.materials.tau_b, Zero) \/ FLt(i.a_bond, Zero)
    [] n = "Flexure"     -> FLe(i.materials.f_r, Zero)
    [] n = "Punching"    -> FLe(i.materials.v_rd, Zero)
    [] n = "DirectShear" -> FLe(i.materials.tau_v, Zero)

\* An evaluation that returned for a valid input with W >= 0 and te > 0.
TableCase ==
  /\ out # NoCall /\ Returned(out) /\ ValidInput(inp)
  /\ FGe(out.val.derived.W_total_kN, Zero)
  /\ FGt(Teff(out), Zero)

\* C26 as stated: for every valid input with W >= 0 and te > 0 each mode's
\* demand and capacity are the table's values.
C26_AsStated ==
  TableCase =>
    \A n \in ModeNames :
      /\ out.val.modes[n].demand =
           TableDemand(n, inp, out.val.derived.W_total_kN, out.val.derived.w_kNpm2)
      /\ out.val.modes[n].capacity = TableCapacity(n, inp, Teff(out))

\* C26, amended: for every valid input with W >= 0 and te > 0 each mode's
\* demand is the table's value, and each mode's capacity is the table's value
\* unless the mode's strength is rejected (tau_b < 0 or a_bond < 0; f_r, v_rd,
\* tau_v <= 0), when it is 0; for inputs of ordinary magnitude the Punching
\* demand is W/4 within rel_tol.
C26_TableValues ==
  TableCase =>
    /\ \A n \in ModeNames :
         /\ out.val.modes[n].demand =
              TableDemand(n, inp, out.val.derived.W_total_kN, out.val.derived.w_kNpm2)
         /\ out.val.modes[n].capacity =
              IF RejectedStrength(inp, n) THEN Zero
              ELSE TableCapacity(n, inp, Teff(out))
    /\ OrdinaryInput(inp) =>
         isclose(out.val.modes["Punching"].demand,
                 FDiv(out.val.derived.W_total_kN, FromInt(4)))

\* The default input of the tests under a plate width of 0.6: every strength
\* accepted, every capacity and demand positive.
C26_Witness ==
  /\ TableCase
  /\ inp.c = Lit(60, 100)
  /\ \A n \in ModeNames :
       /\ ~RejectedStrength(inp, n)
       /\ FGt(out.val.modes[n].demand, Zero)
       /\ FGt(out.val.modes[n].capacity, Zero)
  /\ out.val.modes["Punching"].capacity = TableCapacity("Punching", inp, Teff(out))

\* ------------------------------------------------------------------------
\* The reduction factor of each mode
\* ------------------------------------------------------------------------
\* The reduction factor C27 names for mode n.
PhiOf(i, n) ==
  CASE n = "Adhesion"    -> i.factors.phi_shear
    [] n = "Flexure"     -> i.factors.phi_flexure
    [] n = "Punching"    -> i.factors.phi_punching
    [] n = "DirectShear" -> i.factors.phi_shear

\* gamma_load * demand / (phi * capacity) of mode n of o, on floats; +inf when
\* the denominator is 0.
FactoredQuotient(i, o, n) ==
  IF IsZero(FMul(PhiOf(i, n), o.val.modes[n].capacity)) THEN PosInf
  ELSE FDiv(FMul(i.factors.gamma_load, o.val.modes[n].demand),
            FMul(PhiOf(i, n), o.val.modes[n].capacity))

\* An evaluation under the factored convention that returned, all factors
\* positive.
FactoredCase(i, o) ==
  /\ o # NoCall /\ Returned(o) /\ i.factors.mode = "LRFD"
  /\ \A x \in {i.factors.phi_flexure, i.factors.phi_shear, i.factors.phi_punching,
               i.factors.gamma_load} : FGt(x, Zero)

\* inp and prev_inp differ in phi_shear only.
PhiShearChanged ==
  /\ Reevaluated
  /\ inp.factors.phi_shear # prev_inp.factors.phi_shear
  /\ [inp EXCEPT !.factors.phi_shear = prev_inp.factors.phi_shear] = prev_inp

\* inp and prev_inp differ, and in phi_flexure and phi_punching only.
OtherPhiChanged ==
  /\ Reevaluated
  /\ inp # prev_inp
  /\ [inp EXCEPT !.factors.phi_flexure = prev_inp.factors.phi_flexure,
                 !.factors.phi_punching = prev_inp.factors.phi_punching] = prev_inp

\* C27 as stated: under the factored convention (factors positive) each mode's
\* utilisation is gamma_load*demand/(phi*capacity) with phi_shear for Adhesion
\* and DirectShear, phi_flexure for Flexure, phi_punching for Punching; the
\* Adhesion result changes when phi_shear changes and does not change when only
\* phi_flexure or phi_punching change.
C27_AsStated ==
  /\ FactoredCase(inp, out) =>
       \A n \in ModeNames : Util(out, n) = FactoredQuotient(inp, out, n)
  /\ (PhiShearChanged /\ FactoredCase(inp, out) /\ FactoredCase(prev_inp, prev_out)) =>
       out.val.modes["Adhesion"] # prev_out.val.modes["Adhesion"]
  /\ (OtherPhiChanged /\ FactoredCase(inp, out) /\ FactoredCase(prev_inp, prev_out)) =>
       out.val.modes["Adhesion"] = prev_out.val.modes["Adhesion"]

\* C27, amended: under the factored convention each mode's utilisation and
\* pass flag are what evaluate_lrfd returns for the mode's capacity and demand
\* with gamma_load and phi_shear for Adhesion and DirectShear, phi_flexure for
\* Flexure, phi_punching for Punching: the quotient
\* gamma_load*demand/(phi*capacity) when capacity > 0, phi > 0, demand >= 0 and
\* the float product phi*capacity > 0.  The Adhesion result does not change when
\* only phi_flexure or phi_punching change; it changes with phi_shear when the
\* inputs are of ordinary magnitude, the utilisation is finite and > 0 and the
\* two positive values of phi_shear are not within rel_tol.
C27_FactorOfEachMode ==
  /\ (out # NoCall /\ Returned(out) /\ inp.factors.mode = "LRFD") =>
       \A n \in ModeNames :
         /\ <<Util(out, n), out.val.modes[n].passes>> =
              evaluate_lrfd(out.val.modes[n].capacity, out.val.modes[n].demand,
                            PhiOf(inp, n), inp.factors.gamma_load).val
         /\ (/\ FGt(out.val.modes[n].capacity, Zero)
             /\ FGt(PhiOf(inp, n), Zero)
             /\ FGe(out.val.modes[n].demand, Zero)
             /\ FGt(FMul(PhiOf(inp, n), out.val.modes[n].capacity), Zero)) =>
              Util(out, n) = FactoredQuotient(inp, out, n)
  /\ (/\ OtherPhiChanged /\ Returned(out) /\ Returned(prev_out)) =>
       out.val.modes["Adhesion"] = prev_out.val.modes["Adhesion"]
  /\ (/\ PhiShearChanged
      /\ FactoredCase(inp, out) /\ FactoredCase(prev_inp, prev_out)
      /\ OrdinaryInput(inp) /\ OrdinaryInput(prev_inp)
      /\ IsFinite(Util(prev_out, "Adhesion")) /\ FGt(Util(prev_out, "Adhesion"), Zero)
      /\ ~isclose(inp.factors.phi_shear, prev_inp.factors.phi_shear)) =>
       Util(out, "Adhesion") # Util(prev_out, "Adhesion")

\* phi_shear lowered from 0.6 to 0.3 under the factored convention: the
\* Adhesion utilisation grows, Flexure and Punching keep theirs.
C27_Witness ==
  /\ PhiShearChanged
  /\ FactoredCase(inp, out) /\ FactoredCase(prev_inp, prev_out)
  /\ inp.factors.phi_shear = Lit(3, 10)
  /\ IsFinite(Util(out, "Adhesion"))
  /\ FGt(Util(out, "Adhesion"), Util(prev_out, "Adhesion"))
  /\ Util(out, "Adhesion") = FactoredQuotient(inp, out, "Adhesion")
  /\ out.val.modes["Flexure"] = prev_out.val.modes["Flexure"]
  /\ out.val.modes["Punching"] = prev_out.val.modes["Punching"]

\* ------------------------------------------------------------------------
\* The overall flag
\* ------------------------------------------------------------------------
\* Every mode of o passes.
AllPass(o) == \A n \in ModeNames : o.val.modes[n].passes = TRUE

\* C28 as stated: in every DesignResult returned, under either convention, ok
\* is true exactly when all four modes have passes = true.
C28_AsStated ==
  (out # NoCall /\ Returned(out)) => (out.val.ok <=> AllPass(out))

\* ------------------------------------------------------------------------
\* The two evaluators side by side
\* ------------------------------------------------------------------------
\* A call of either evaluator, of evaluate_lrfd with phi = 1 and gamma = 1.
UnfactoredCall ==
  /\ call # NoCall /\ call.fn \in {"evaluate_fos", "evaluate_lrfd"}
  /\ call.fn = "evaluate_lrfd" =>
       call.phi = FromInt(1) /\ call.gamma = FromInt(1)

\* What evaluate_fos and evaluate_lrfd (phi = 1, gamma = 1) return for the
\* capacity and demand of the call: one is ret, the other is evaluated here.
FosPair ==
  IF call.fn = "evaluate_fos" THEN ret.val
  ELSE evaluate_fos(call.capacity, call.demand).val
LrfdPair ==
  IF call.fn = "evaluate_lrfd" THEN ret.val
  ELSE evaluate_lrfd(call.capacity, call.demand, FromInt(1), FromInt(1)).val

\* The evaluators agree on the pass flag when capacity > 0 or demand > 0, and
\* disagree when capacity <= 0 and demand <= 0, evaluate_fos passing.
PassFlagsAgree ==
  IF FGt(call.capacity, Zero) \/ FGt(call.demand, Zero)
  THEN FosPair[2] = LrfdPair[2]
  ELSE FosPair[2] = TRUE /\ LrfdPair[2] = FALSE

\* C29 as stated: with phi = 1 and gamma = 1 the evaluators return the same
\* pass flag when capacity > 0 or demand > 0 and disagree (evaluate_fos passes,
\* evaluate_lrfd fails) exactly when capacity <= 0 and demand <= 0; for
\* capacity > 0 and demand > 0 the utilisation is the reciprocal of the fos.
C29_AsStated ==
  UnfactoredCall =>
    /\ PassFlagsAgree
    /\ (FGt(call.capacity, Zero) /\ FGt(call.demand, Zero)) =>
         LrfdPair[1] = IF IsZero(FosPair[1]) THEN PosInf
                       ELSE FDiv(FromInt(1), FosPair[1])

\* C29, amended: the pass flags as stated; for capacity > 0 and demand > 0 the
\* fos is capacity/demand and the utilisation demand/capacity, each rounded
\* once, and the utilisation is the reciprocal of the fos within rel_tol when
\* capacity and demand are of ordinary magnitude.
C29_EvaluatorsAgree ==
  UnfactoredCall =>
    /\ PassFlagsAgree
    /\ (FGt(call.capacity, Zero) /\ FGt(call.demand, Zero)) =>
         /\ FosPair[1] = FDiv(call.capacity, call.demand)
         /\ LrfdPair[1] = FDiv(call.demand, call.capacity)
         /\ (OrdinaryMagnitude(call.capacity) /\ OrdinaryMagnitude(call.demand)) =>
              isclose(LrfdPair[1], FDiv(FromInt(1), FosPair[1]))

\* Capacity equal to demand: fos 1, utilisation 1, both pass.
C29_Witness ==
  /\ UnfactoredCall /\ call.fn = "evaluate_lrfd"
  /\ FGt(call.capacity, Zero) /\ call.demand = call.capacity
  /\ ret.val = <<FromInt(1), TRUE>>
  /\ FosPair = <<FromInt(1), TRUE>>

\* ------------------------------------------------------------------------
\* A layer consumed by the durability deduction
\* ------------------------------------------------------------------------
\* The modes whose capacity depends on the effective thickness.
ThicknessModes == {"Flexure", "Punching", "DirectShear"}

\* The first mode in the order of ModeOrder whose fos is 0.
FirstZeroFos(o) ==
  ModeOrder[CHOOSE k \in 1..Len(ModeOrder) :
              /\ Fos(o, ModeOrder[k]) = Zero
              /\ \A j \in 1..(k - 1) : Fos(o, ModeOrder[j]) # Zero]

\* C30 as stated: under the Factor-of-Safety convention, when the deduction is
\* at least the nominal thickness and the block weight is positive, Flexure,
\* Punching and DirectShear have capacity 0 and fos 0, the governing value is 0,
\* ok is false, and the governing mode is the first mode in the order Adhesion,
\* Flexure, Punching, DirectShear whose fos is 0: Flexure whenever the adhesion
\* capacity is positive.
C30_AsStated ==
  (/\ out # NoCall /\ Returned(out)
   /\ inp.factors.mode = "FOS"
   /\ FGe(inp.factors.t_dur_deduction, inp.t)
   /\ FGt(out.val.derived.W_total_kN, Zero)) =>
    /\ Teff(out) = Zero
    /\ \A n \in ThicknessModes :
         out.val.modes[n].capacity = Zero /\ Fos(out, n) = Zero
    /\ out.val.governing_value = Zero
    /\ out.val.ok = FALSE
    /\ out.val.governing_mode = FirstZeroFos(out)
    /\ FGt(out.val.modes["Adhesion"].capacity, Zero) =>
         out.val.governing_mode = "Flexure"

\* An evaluation under the Factor-of-Safety convention that returned, of an
\* input whose deduction is at least its thickness, under a positive weight.
ConsumedLayer ==
  /\ out # NoCall /\ Returned(out)
  /\ inp.factors.mode = "FOS"
  /\ FGe(inp.factors.t_dur_deduction, inp.t)
  /\ FGt(out.val.derived.W_total_kN, Zero)

\* C30, amended: under the Factor-of-Safety convention, when the deduction is
\* at least the nominal thickness and the block weight is positive, the
\* effective thickness is 0, Flexure, Punching and DirectShear have capacity 0,
\* DirectShear has fos 0 and ok is false; for inputs of ordinary magnitude the
\* three modes have fos 0, the governing value is 0 and the governing mode is
\* the first mode in the order whose fos is 0, Flexure whenever the adhesion
\* capacity is positive.
C30_ConsumedLayerFails ==
  ConsumedLayer =>
    /\ Teff(out) = Zero
    /\ \A n \in ThicknessModes : out.val.modes[n].capacity = Zero
    /\ Fos(out, "DirectShear") = Zero
    /\ out.val.ok = FALSE
    /\ OrdinaryInput(inp) =>
         /\ \A n \in ThicknessModes : Fos(out, n) = Zero
         /\ out.val.governing_value = Zero
         /\ out.val.governing_mode = FirstZeroFos(out)
         /\ FGt(out.val.modes["Adhesion"].capacity, Zero) =>
              out.val.governing_mode = "Flexure"

\* The thin layer under the largest deduction of the form: adhesion passes,
\* Flexure governs with fos 0.
C30_Witness ==
  /\ ConsumedLayer /\ OrdinaryInput(inp)
  /\ FGt(inp.t, Zero) /\ FGt(inp.factors.t_dur_deduction, inp.t)
  /\ FGt(out.val.modes["Adhesion"].capacity, Zero)
  /\ out.val.modes["Adhesion"].passes = TRUE
  /\ out.val.governing_mode = "Flexure"
  /\ out.val.governing_value = Zero
  /\ out.val.ok = FALSE
====
